---------------------------- MODULE Spec2Model ----------------------------
(***************************************************************************)
(* Model of the portfolio server (src/server.js, the router and rate       *)
(* limiter of server/router.js, the two launch handlers and                *)
(* src/server/utils/errorHandler.js).                                      *)
(*                                                                         *)
(* The browser side: the API service, the error bridge, the feature flags, *)
(* the contact form, the notification system, the Modal and the links of   *)
(* the project cards.                                                      *)
(*                                                                         *)
(* The specifications share the definitions below:                         *)
(*   SpecErr    handleHttpError applied to every error / Accept header     *)
(*   SpecRate   RateLimiter.checkLimit under an advancing clock            *)
(*   SpecStatic processRequest for requests no route handles (file cache)  *)
(*   SpecApi    processRequest for requests to the launch routes           *)
(*   SpecFetch  fetchWithErrorHandling against every outcome of fetch      *)
(*   SpecLaunch a Launch Demo click: business logic, API service, server   *)
(*   SpecForm   the submit handler of the contact form                     *)
(*   SpecNotify the NotificationSystem, its timers and handleAppLaunch     *)
(*   SpecModal  open() and close() of a Modal against its two timers       *)
(*   SpecCards  the links createProjectLinks puts on a project card        *)
(***************************************************************************)
EXTENDS Integers, Sequences, FiniteSets, Bags, TLC

VARIABLES
    nodeEnv,     \* process.env.NODE_ENV: "production" or "development"
    clock,       \* Date.now(), in model ticks
    alive,       \* the node process is running
    exitCode,    \* the code the process ended with, -1 while running
    errorLog,    \* handleServerError has logged an error
    files,       \* the volatile file of the public directory
    fileCache,   \* server.js fileCache, a Map in insertion order
    conn,        \* the requests being processed and, once answered, their responses
    requests,    \* RateLimiter.requests: ip -> accepted timestamps
    accepted,    \* history: every timestamp checkLimit accepted, per ip
    lastCheck,   \* the last checkLimit call and its result
    running,     \* child processes started by exec and not yet exited
    eIn,         \* SpecErr: the error and request handed to handleHttpError
    eRes,        \* SpecErr: the response handleHttpError wrote
    flags,       \* browser: featureFlags of appConfig.js
    client,      \* browser: the call of the API service in progress
    form,        \* browser: the contact form, its notifications and submissions
    notes,       \* browser: the NotificationSystem, its elements and its timers
    handler,     \* browser: the call of handleAppLaunch in progress
    modal,       \* browser: a Modal, its element and its timers
    card         \* browser: the links of the project card rendered last

vars == <<nodeEnv, clock, alive, exitCode, errorLog, files, fileCache, conn,
          requests, accepted, lastCheck, running, eIn, eRes, flags, client, form,
          notes, handler, modal, card>>

None == [kind |-> "none"]

\* no request has been taken up yet
Free == [pc |-> "free"]

\* requests processRequest works on at the same time: a request is taken up
\* while others wait for the file system or for their body
MaxConns == 2

Conns == 1..MaxConns

NoConns == [k \in Conns |-> Free]

\* the characters as one string, the form in which they name a property or
\* a path
RECURSIVE join(_)
join(str) == IF str = <<>> THEN "" ELSE Head(str) \o join(Tail(str))

\* String.prototype.startsWith on strings written as sequences of characters
startsWith(str, prefix) ==
    Len(str) >= Len(prefix) /\ SubSeq(str, 1, Len(prefix)) = prefix

-----------------------------------------------------------------------------
(* Error classes, errorHandler.js                                          *)

\* errorConfig.severityLevels
SeverityError == "error"
SeverityWarning == "warning"

\* class AppError: statusCode || 500, errorCode || 'INTERNAL_ERROR',
\* severity from the statusCode argument (0 stands for an omitted argument)
AppError(cls, statusCode, errorCode) ==
    [kind |-> "AppError",
     cls |-> cls,
     statusCode |-> IF statusCode = 0 THEN 500 ELSE statusCode,
     errorCode |-> IF errorCode = "" THEN "INTERNAL_ERROR" ELSE errorCode,
     severity |-> IF statusCode >= 500 THEN SeverityError ELSE SeverityWarning]

NotFoundError == AppError("NotFoundError", 404, "NOT_FOUND")

ValidationError == AppError("ValidationError", 400, "VALIDATION_ERROR")

ServerError == AppError("ServerError", 500, "SERVER_ERROR")

FileError(errorCode) ==
    AppError("FileError", 500, IF errorCode = "" THEN "FILE_ERROR" ELSE errorCode)

\* a plain Error of the runtime, with its code ("" when it has none)
NodeError(code) == [kind |-> "Error", code |-> code]

\* mutant: permission errors answered as 403
mapNodeErrorToAppError_403(error) ==
    CASE error.code = "ENOENT" -> NotFoundError
      [] error.code = "EACCES" -> AppError("FileError", 403, "PERMISSION_DENIED")
      [] OTHER -> ServerError

mapNodeErrorToAppError(error) ==
    CASE error.code = "ENOENT" -> NotFoundError
      [] error.code = "EACCES" -> FileError("PERMISSION_DENIED")
      [] error.code = "EADDRINUSE" -> ServerError
      [] error.code = "ECONNREFUSED" -> ServerError
      [] error.code = "ETIMEDOUT" -> ServerError
      [] error.code = "ENOTFOUND" -> ServerError
      [] OTHER -> ServerError

\* String.prototype.includes on strings written as sequences of symbols:
\* scan every start position for the needle
RECURSIVE indexOfFrom(_, _, _)
indexOfFrom(hay, needle, i) ==
    IF i + Len(needle) - 1 > Len(hay) THEN 0
    ELSE IF \A k \in 1..Len(needle) : hay[i + k - 1] = needle[k] THEN i
    ELSE indexOfFrom(hay, needle, i + 1)

includes(hay, needle) == indexOfFrom(hay, needle, 1) # 0

\* 'application/json' as a sequence of symbols
ApplicationJson == <<"application", "/", "json">>

\* res.req ? res.req.headers.accept : ''   (an absent header is undefined)
acceptHeader(req) ==
    IF req.hasReq
    THEN IF req.hasAccept THEN [defined |-> TRUE, value |-> req.accept]
         ELSE [defined |-> FALSE, value |-> <<>>]
    ELSE [defined |-> TRUE, value |-> <<>>]

\* acceptHeader && acceptHeader.includes('application/json')
wantsJson(req) ==
    LET h == acceptHeader(req)
    IN  h.defined /\ h.value # <<>> /\ includes(h.value, ApplicationJson)

createErrorResponse(appError) ==
    [kind |-> "json", error |-> appError.errorCode, statusCode |-> appError.statusCode]

generateErrorHtml(appError) ==
    [kind |-> "html", error |-> "",
     statusCode |-> appError.statusCode]

\* handleHttpError on a response whose headers are not sent yet: the
\* status line, the headers and the body it writes
handleHttpError(error, req) ==
    LET appError == IF error.kind = "AppError" THEN error
                    ELSE mapNodeErrorToAppError(error)
        logLevel == IF appError.severity = SeverityError THEN "error" ELSE "warn"
    IN  IF wantsJson(req)
        THEN [kind |-> "response",
              status |-> appError.statusCode,
              contentType |-> "application/json",
              xErrorCode |-> appError.errorCode,
              cacheControl |-> "",
              logLevel |-> logLevel,
              body |-> createErrorResponse(appError)]
        ELSE [kind |-> "response",
              status |-> appError.statusCode,
              contentType |-> "text/html",
              xErrorCode |-> appError.errorCode,
              cacheControl |-> "",
              logLevel |-> logLevel,
              body |-> generateErrorHtml(appError)]

-----------------------------------------------------------------------------
(* RateLimiter, server/router.js                                           *)

\* new RateLimiter(100, 60000): the model keeps the code's comparison and
\* scales the two numbers down so that a window fills and slides
limit == 2
windowMs == 2

\* the last instant the model's clock reaches
MaxClock == 2

IPs == {"ip1", "ip2"}

\* userRequests.filter(time => now - time < this.windowMs)
recentRequests(userRequests, now) ==
    SelectSeq(userRequests, LAMBDA time : now - time < windowMs)

\* mutant: a rejected request is recorded like an accepted one
checkLimit_recordsRejected(reqs, ip, now) ==
    LET recent == recentRequests(reqs[ip], now)
    IN  [ok |-> Len(recent) < limit,
         requests |-> [reqs EXCEPT ![ip] = Append(recent, now)]]

\* mutant: the comparison lets one request too many through
checkLimit_offByOne(reqs, ip, now) ==
    LET recent == recentRequests(reqs[ip], now)
    IN  IF Len(recent) > limit
        THEN [ok |-> FALSE, requests |-> reqs]
        ELSE [ok |-> TRUE, requests |-> [reqs EXCEPT ![ip] = Append(recent, now)]]

\* RateLimiter.checkLimit(ip) at Date.now() = now: the result and the map
\* afterwards (a missing key reads as the empty list)
checkLimit(reqs, ip, now) ==
    LET recent == recentRequests(reqs[ip], now)
    IN  IF Len(recent) >= limit
        THEN [ok |-> FALSE, requests |-> reqs]
        ELSE [ok |-> TRUE, requests |-> [reqs EXCEPT ![ip] = Append(recent, now)]]

\* history: how many of the timestamps in hist lie in (t - windowMs, t]
InWindow(hist, t) ==
    Cardinality({i \in DOMAIN hist : t - windowMs < hist[i] /\ hist[i] <= t})

\* history: the call before this one was a call of the same ip, and it was
\* rejected
RejectedLast(last, ip) ==
    /\ last.kind = "check"
    /\ last.ip = ip
    /\ ~last.ok

-----------------------------------------------------------------------------
(* Initial values shared by the specifications                             *)

NoRequests == [ip \in IPs |-> <<>>]

InitRate ==
    /\ requests = NoRequests
    /\ accepted = NoRequests
    /\ lastCheck = None

InitErrIdle ==
    /\ eIn = None
    /\ eRes = None

\* featureFlags as appConfig.js ships them (the flags the launches look at)
FeatureNames == {"ecosystemSimulation", "codeProcessor"}

DefaultFlags == [f \in FeatureNames |-> [type |-> "boolean", value |-> "true"]]

\* no call of the API service has been made
ClientIdle == [pc |-> "idle"]

\* the contact form before the page has been used
FormIdle == [pc |-> "idle"]

\* new NotificationSystem(): nothing shown, nothing queued, no timer pending
NoNotifications ==
    [elements |-> <<>>, body |-> {}, activeNotifications |-> {},
     notificationQueue |-> <<>>, isProcessingQueue |-> FALSE, timers |-> EmptyBag,
     updates |-> 0]

\* handleAppLaunch has not been called
HandlerIdle == [pc |-> "idle"]

\* new Modal(options): modal and element are null (0), nothing is attached
\* (lastCall, opens and closes are history: the last call made, the calls
\* of open and of close)
NewModal ==
    [modal |-> 0, element |-> 0, escHandler |-> FALSE, created |-> 0,
     body |-> {}, active |-> {}, timers |-> EmptyBag, lastCall |-> "none",
     threw |-> FALSE, opens |-> 0, closes |-> 0]

InitUi ==
    /\ notes = NoNotifications
    /\ handler = HandlerIdle
    /\ modal = NewModal
    /\ card = None

InitClientIdle ==
    /\ flags = DefaultFlags
    /\ client = ClientIdle
    /\ InitUi
    /\ form = FormIdle
    /\ InitUi

varsRate == <<requests, accepted, lastCheck>>
varsErr == <<eIn, eRes>>
varsProc == <<nodeEnv, alive, exitCode, errorLog>>
varsStatic == <<files, fileCache>>
varsChild == <<running>>
varsUi == <<notes, handler, modal, card>>
varsClient == <<flags, client, form, notes, handler, modal, card>>
varsServer == <<nodeEnv, clock, alive, exitCode, errorLog, files, fileCache,
                conn, requests, accepted, lastCheck, running, eIn, eRes>>

-----------------------------------------------------------------------------
(* SpecErr: handleHttpError on every error and Accept header               *)

\* the longest Accept header, in symbols
MaxHeaderLen == 4

HeaderSymbols == {"application", "/", "json", "text"}

Headers == UNION {[1..n -> HeaderSymbols] : n \in 0..MaxHeaderLen}

NodeCodes == {"ENOENT", "EACCES", "EADDRINUSE", "ECONNREFUSED", "ETIMEDOUT",
              "ENOTFOUND", "EISDIR", "ERR_HTTP_HEADERS_SENT", ""}

FileErrorCodes == {"", "ENOTDIR", "EACCES", "FILE_SERVE_ERROR"}

Errors ==
    {NotFoundError, ValidationError, ServerError}
      \cup {FileError(c) : c \in FileErrorCodes}
      \cup {NodeError(c) : c \in NodeCodes}

ErrRequests ==
    {[hasReq |-> FALSE, hasAccept |-> FALSE, accept |-> <<>>],
     [hasReq |-> TRUE, hasAccept |-> FALSE, accept |-> <<>>]}
      \cup {[hasReq |-> TRUE, hasAccept |-> TRUE, accept |-> h] : h \in Headers}

InitErr ==
    /\ nodeEnv = "development"
    /\ clock = 0
    /\ alive = TRUE
    /\ exitCode = -1
    /\ errorLog = FALSE
    /\ files = None
    /\ fileCache = <<>>
    /\ conn = NoConns
    /\ InitRate
    /\ running = 0
    /\ eIn \in [kind : {"call"}, error : Errors, req : ErrRequests]
    /\ eRes = None
    /\ InitClientIdle

\* handleHttpError(error, res, logger) with a fresh response
ErrHandle ==
    /\ eIn.kind = "call"
    /\ eRes = None
    /\ eRes' = handleHttpError(eIn.error, eIn.req)
    /\ UNCHANGED <<eIn, clock, conn, varsProc, varsStatic, varsRate, varsChild>>

NextErr == ErrHandle /\ UNCHANGED varsClient

SpecErr == InitErr /\ [][NextErr]_vars

-----------------------------------------------------------------------------
(* SpecRate: RateLimiter.checkLimit                                        *)

InitRateSpec ==
    /\ nodeEnv = "development"
    /\ clock = 0
    /\ alive = TRUE
    /\ exitCode = -1
    /\ errorLog = FALSE
    /\ files = None
    /\ fileCache = <<>>
    /\ conn = NoConns
    /\ InitRate
    /\ running = 0
    /\ InitErrIdle
    /\ InitClientIdle

\* one call rateLimiter.checkLimit(ip)
RateCheck(ip) ==
    LET r == checkLimit(requests, ip, clock)
    IN  /\ requests' = r.requests
        /\ accepted' = IF r.ok THEN [accepted EXCEPT ![ip] = Append(@, clock)]
                       ELSE accepted
        /\ lastCheck' = [kind |-> "check", ip |-> ip, ok |-> r.ok,
                         inWindow |-> InWindow(accepted[ip], clock),
                         afterReject |-> RejectedLast(lastCheck, ip)]
        /\ UNCHANGED <<clock, conn, varsProc, varsStatic, varsChild, varsErr>>

\* Date.now() advances
RateTick ==
    /\ clock < MaxClock
    /\ clock' = clock + 1
    /\ UNCHANGED <<conn, varsProc, varsStatic, varsRate, varsChild, varsErr>>

NextRate ==
    \/ \E ip \in IPs : RateCheck(ip) /\ UNCHANGED varsClient
    \/ RateTick /\ UNCHANGED varsClient

SpecRate == InitRateSpec /\ [][NextRate]_vars

-----------------------------------------------------------------------------
(* config.js, the public directory and the file cache of server.js         *)

\* config.cache.maxSize (50) and config.cache.ttl (5 * 60 * 1000), scaled
\* down so that the cache fills and entries expire within MaxClock
maxSize == 1
ttl == 2

\* mutant: caching is on in every environment
cacheEnabled_always == TRUE

\* config.cache.enabled: isProduction
cacheEnabled == nodeEnv = "production"

\* how often the volatile file is rewritten
MaxVer == 1

\* the public directory holds maxSize + 1 files: index.html, a.css and these
StablePathnames == {"/b" \o ToString(i) \o ".js" : i \in 2..maxSize}

\* pathname === '/' ? config.paths.indexHtml : path.join(config.paths.public, pathname)
filePathOf(pathname) == IF pathname = "/" THEN "/index.html" ELSE pathname

\* config.MIME_TYPES[path.extname(filePath)] || config.defaultContentType
contentTypeOf(filePath) ==
    CASE filePath = "/index.html" -> "text/html"
      [] filePath = "/a.css" -> "text/css"
      [] filePath \in StablePathnames -> "text/javascript"
      [] OTHER -> "application/octet-stream"

\* What fs.access, fs.readFile and fs.stat find at a path: index.html and
\* the b<i>.js are files that never change, a.css is rewritten and deleted while
\* the server runs, /index.html/x names something below a regular file
\* (ENOTDIR), every other path is absent (ENOENT).  ver stands for the
\* content and the mtime of the file.
fsEntry(fs, filePath) ==
    CASE filePath = "/index.html" -> [err |-> "", ver |-> 0]
      [] filePath \in StablePathnames -> [err |-> "", ver |-> 0]
      [] filePath = "/a.css" ->
            IF fs.exists THEN [err |-> "", ver |-> fs.ver]
            ELSE [err |-> "ENOENT", ver |-> 0]
      [] filePath = "/index.html/x" -> [err |-> "ENOTDIR", ver |-> 0]
      [] OTHER -> [err |-> "ENOENT", ver |-> 0]

\* fileCache.get(key): the position of the entry, 0 when there is none
cacheIndex(cache, key) ==
    IF \E i \in 1..Len(cache) : cache[i].key = key
    THEN CHOOSE i \in 1..Len(cache) : cache[i].key = key
    ELSE 0

\* fileCache.set(key, entry): an existing key keeps its place in the Map
cacheSet(cache, key, entry) ==
    IF cacheIndex(cache, key) # 0
    THEN [cache EXCEPT ![cacheIndex(cache, key)] = entry]
    ELSE Append(cache, entry)

\* fileCache.delete(key)
cacheDelete(cache, key) == SelectSeq(cache, LAMBDA e : e.key # key)

\* the for loop of manageCache: the first entry, in Map order, whose
\* lastAccessed is below every one before it and below Date.now()
RECURSIVE oldestScan(_, _, _, _)
oldestScan(cache, i, oldestTimestamp, oldestKey) ==
    IF i > Len(cache) THEN oldestKey
    ELSE IF cache[i].lastAccessed < oldestTimestamp
         THEN oldestScan(cache, i + 1, cache[i].lastAccessed, cache[i].key)
         ELSE oldestScan(cache, i + 1, oldestTimestamp, oldestKey)

\* manageCache(filePath, content, lastModified) at Date.now() = now
\* ("" stands for oldestKey = null)
manageCache(cache, filePath, content, lastModified, now) ==
    LET oldestKey == IF Len(cache) >= maxSize
                     THEN oldestScan(cache, 1, now, "")
                     ELSE ""
        pruned == IF oldestKey # "" THEN cacheDelete(cache, oldestKey) ELSE cache
    IN  cacheSet(pruned, filePath,
                 [key |-> filePath, content |-> content, timestamp |-> now,
                  lastAccessed |-> now, lastModified |-> lastModified])

\* mutant: every hit extends the life of the entry
cacheFresh_sliding(cache, filePath, now) ==
    /\ cacheIndex(cache, filePath) # 0
    /\ now - cache[cacheIndex(cache, filePath)].lastAccessed < ttl

\* cached && Date.now() - cached.timestamp < config.cache.ttl
cacheFresh(cache, filePath, now) ==
    /\ cacheIndex(cache, filePath) # 0
    /\ now - cache[cacheIndex(cache, filePath)].timestamp < ttl

-----------------------------------------------------------------------------
(* Requests and responses                                                  *)

\* request targets (req.url), written as sequences of characters
UrlRoot == <<"/">>

UrlACss ==
    <<"/", "a", ".", "c", "s", "s">>

UrlNoFile ==
    <<"/", "n", "o", "f", "i", "l", "e">>

UrlBelowFile ==
    <<"/", "i", "n", "d", "e", "x", ".", "h", "t", "m", "l", "/", "x">>

UrlStable(i) ==
    <<"/", "b", ToString(i), ".", "j", "s">>

UrlLaunchEcosystem ==
    <<"/", "a", "p", "i", "/", "l", "a", "u", "n", "c", "h", "-", "e", "c",
      "o", "s", "y", "s", "t", "e", "m">>

UrlLaunchCodeProcessor ==
    <<"/", "a", "p", "i", "/", "l", "a", "u", "n", "c", "h", "-", "c", "o",
      "d", "e", "-", "p", "r", "o", "c", "e", "s", "s", "o", "r">>

\* the absolute form of a request target, as a client may send it
UrlAbsoluteLaunchEcosystem ==
    <<"h", "t", "t", "p", ":", "/", "/", "l", "o", "c", "a", "l", "h", "o",
      "s", "t", ":", "3", "0", "0", "1", "/", "a", "p", "i", "/", "l", "a",
      "u", "n", "c", "h", "-", "e", "c", "o", "s", "y", "s", "t", "e", "m">>

\* the scheme an absolute request target starts with
HttpScheme == <<"h", "t", "t", "p", ":", "/", "/">>

\* url.parse(req.url, true).pathname: what follows scheme and host of an
\* absolute target, up to the query
urlParse(url) ==
    LET rest == SubSeq(url, Len(HttpScheme) + 1, Len(url))
        slash == indexOfFrom(rest, <<"/">>, 1)
        path == IF ~startsWith(url, HttpScheme) THEN url
                ELSE IF slash = 0 THEN <<"/">>
                ELSE SubSeq(rest, slash, Len(rest))
        query == indexOfFrom(path, <<"?">>, 1)
    IN  [pathname |-> join(IF query = 0 THEN path
                           ELSE SubSeq(path, 1, query - 1))]

\* a request taken up by processRequest; pathname is the constant of that
\* name, ret is what router.handleRequest returned, trace the middleware and
\* handlers that ran, execs the exec calls made for it, host what the launch
\* handler found.  checked and limited (the rate limiting middleware called
\* checkLimit, and answered 429), access (the outcome of fs.access when the
\* request came in) and afterError (handleServerError had logged an error
\* before) are kept for the record.
NewConn(req) ==
    [pc |-> "new", req |-> req, pathname |-> urlParse(req.url).pathname,
     io |-> None, content |-> None, trace |-> <<>>,
     res |-> None, ret |-> "pending", execs |-> 0, threw |-> FALSE,
     host |-> "", access |-> "", afterError |-> errorLog,
     checked |-> FALSE, limited |-> FALSE, dumped |-> FALSE]

\* res.writeHead(200, ...) and res.end(content) of serveStaticFile
fileResponse(contentType, cacheControl, content, lastModified, fromCache) ==
    [kind |-> "response", status |-> 200, contentType |-> contentType,
     cacheControl |-> cacheControl, content |-> content,
     lastModified |-> lastModified, fromCache |-> fromCache]

\* the request is answered: processRequest is done with it
Answered(c, res) == [c EXCEPT !.pc = "done", !.res = res, !.io = None]

\* serveStaticFile throws, processRequest catches and calls handleHttpError
\* (nothing has been written to the response on this path)
StaticError(c, error) == Answered(c, handleHttpError(error, c.req))

AcceptJson == <<"application", "/", "json">>
AcceptHtml == <<"text", "/", "html">>

\* processRequest is not at work in this place: no request has been taken
\* up there, or the one that was has been dealt with
Idle(k) == conn[k].pc \in {"free", "done", "waiting"}

\* the place a request that comes in takes: the first that is idle
nextConn(k) == Idle(k) /\ \A j \in 1..(k - 1) : ~Idle(j)

-----------------------------------------------------------------------------
(* Router, its global middleware and the launch routes, server/router.js   *)

\* the keys of router.routes after the two addRoute calls
routeKey(method, pathname) == method \o ":" \o pathname

Routes == {routeKey("POST", "/api/launch-ecosystem"),
           routeKey("POST", "/api/launch-code-processor")}

\* the functions handed to router.use, in registration order
GlobalMiddleware == <<"logger", "cors", "rateLimit">>

\* route.middleware of both routes: addRoute is called without the argument
RouteMiddleware == <<>>

\* req.url.startsWith('/api')
startsWithApi(url) == startsWith(url, <<"/", "a", "p", "i">>)

\* the body of the 429 answer of the rate limiting middleware
tooManyRequests ==
    [kind |-> "response", status |-> 429, contentType |-> "application/json",
     body |-> [kind |-> "json", error |-> "Too many requests"]]

\* One middleware function applied to the state of the request: st.res is
\* the response written so far, st.requests the rate limiter's map; next
\* tells whether the function called next().
runMiddleware(name, st, req, now) ==
    CASE name = "logger" ->
            [st |-> [st EXCEPT !.trace = Append(@, "logger")], next |-> TRUE]
      [] name = "cors" ->
            IF req.method = "OPTIONS"
            THEN [st |-> [st EXCEPT !.trace = Append(@, "cors"),
                                    !.res = [kind |-> "response", status |-> 200,
                                             contentType |-> "",
                                             body |-> [kind |-> "empty"]]],
                  next |-> FALSE]
            ELSE [st |-> [st EXCEPT !.trace = Append(@, "cors")], next |-> TRUE]
      [] name = "rateLimit" ->
            IF startsWithApi(req.url)
            THEN LET r == checkLimit(st.requests, req.ip, now)
                 IN  IF ~r.ok
                     THEN [st |-> [st EXCEPT !.trace = Append(@, "rateLimit"),
                                             !.res = tooManyRequests,
                                             !.checked = TRUE,
                                             !.limited = TRUE],
                           next |-> FALSE]
                     ELSE [st |-> [st EXCEPT !.trace = Append(@, "rateLimit"),
                                             !.requests = r.requests,
                                             !.checked = TRUE,
                                             !.accepts = Append(@, req.ip)],
                           next |-> TRUE]
            ELSE [st |-> [st EXCEPT !.trace = Append(@, "rateLimit")], next |-> TRUE]

\* Router.executeMiddleware: each function runs the rest of the chain from
\* inside its call of next(); the chain ends where a function does not call it
RECURSIVE executeMiddleware(_, _, _, _, _)
executeMiddleware(chain, index, st, req, now) ==
    IF index > Len(chain) THEN st
    ELSE LET r == runMiddleware(chain[index], st, req, now)
         IN  IF r.next THEN executeMiddleware(chain, index + 1, r.st, req, now)
             ELSE r.st

\* What the launch handler finds on the host.
\* ecosystem-simulation/launch.js: the project path is absent; run.sh is
\* absent and cannot be written; run.sh is absent and is written; all there.
EcoHosts == {"nopath", "noscript-readonly", "noscript", "ready"}

\* code-processor/launch.js: the project path is absent; dist/CodeProcessor
\* is absent; chmodSync fails (the handler goes on); all there.
CodeHosts == {"nopath", "noexe", "chmod-fails", "ready"}

HostsOf(pathname) ==
    IF pathname = "/api/launch-ecosystem" THEN EcoHosts ELSE CodeHosts

launchResponse(status, success) ==
    [kind |-> "response", status |-> status, contentType |-> "application/json",
     body |-> [kind |-> "json", success |-> success]]

\* mutant: the handler answers before it looks for the project path
handleLaunch_noCheck(pathname, host) ==
    [execs |-> 1, res |-> launchResponse(200, TRUE)]

\* handleLaunch of the two launch.js files up to its res.writeHead: the
\* number of exec calls made and the response it is about to write
handleLaunch(pathname, host) ==
    IF pathname = "/api/launch-ecosystem"
    THEN CASE host = "nopath" -> [execs |-> 0, res |-> launchResponse(500, FALSE)]
           [] host = "noscript-readonly" ->
                 [execs |-> 0, res |-> launchResponse(500, FALSE)]
           [] OTHER -> [execs |-> 1, res |-> launchResponse(200, TRUE)]
    ELSE CASE host = "nopath" -> [execs |-> 0, res |-> launchResponse(500, FALSE)]
           [] host = "noexe" -> [execs |-> 0, res |-> launchResponse(500, FALSE)]
           [] OTHER -> [execs |-> 1, res |-> launchResponse(200, TRUE)]

\* parseJsonBody: an empty body resolves to {}, a body JSON.parse rejects
\* is a ValidationError
parseJsonBody(body) == IF body = "invalid" THEN "reject" ELSE "resolve"

\* mutant: production exits like development
handleServerError_exit(context) ==
    /\ errorLog' = TRUE
    /\ alive' = FALSE
    /\ exitCode' = 1
    /\ UNCHANGED nodeEnv

\* handleServerError(error, context) of server.js: the error is logged;
\* outside production the process exits with code 1
handleServerError(context) ==
    /\ errorLog' = TRUE
    /\ IF nodeEnv = "production"
       THEN UNCHANGED <<alive, exitCode>>
       ELSE alive' = FALSE /\ exitCode' = 1
    /\ UNCHANGED nodeEnv

-----------------------------------------------------------------------------
(* processRequest                                                          *)

\* http.createServer(processRequest) takes up a request, whatever the
\* requests taken up before are waiting for.  router.handleRequest
\* looks the key up: without a route it returns false at once and
\* serveStaticFile issues fs.access; with a route the global middleware, the
\* route's middleware and the route handler run, up to the handler's
\* await parseJsonBody(req).
Arrive(k, req) ==
    /\ alive
    /\ nextConn(k)
    /\ \E c \in {NewConn(req)} :
        /\ IF routeKey(req.method, c.pathname) \notin Routes
           THEN /\ conn' = [conn EXCEPT ![k] =
                               [c EXCEPT
                                   !.pc = "access",
                                   !.ret = "false",
                                   !.access = fsEntry(files, filePathOf(c.pathname)).err,
                                   !.io = fsEntry(files, filePathOf(c.pathname))]]
                /\ UNCHANGED varsRate
           ELSE \E st1 \in {executeMiddleware(GlobalMiddleware, 1,
                                [res |-> None, trace |-> <<>>, requests |-> requests,
                                 accepts |-> <<>>, checked |-> FALSE,
                                 limited |-> FALSE],
                                req, clock)} :
                \E st2 \in {executeMiddleware(RouteMiddleware, 1, st1, req, clock)} :
                    /\ conn' = [conn EXCEPT ![k] =
                                   [c EXCEPT
                                       !.pc = "body",
                                       !.res = st2.res,
                                       !.checked = st2.checked,
                                       !.limited = st2.limited,
                                       !.trace = Append(st2.trace, "handler")]]
                    /\ requests' = st2.requests
                    /\ accepted' = IF st2.accepts # <<>>
                                   THEN [accepted EXCEPT ![req.ip] = Append(@, clock)]
                                   ELSE accepted
                    /\ lastCheck' = IF st2.checked
                                    THEN [kind |-> "check", ip |-> req.ip,
                                          ok |-> ~st2.limited,
                                          inWindow |-> InWindow(accepted[req.ip], clock),
                                          afterReject |-> RejectedLast(lastCheck, req.ip)]
                                    ELSE lastCheck
    /\ UNCHANGED <<clock, varsProc, varsStatic, varsChild, varsErr>>

\* What the route handler reads of a request whose response the rate
\* limiting middleware has ended.  The http server dumps a request nobody
\* is reading when its response has finished: the chunks that arrive
\* afterwards are dropped and 'end' comes with nothing read ("dumped"), so
\* that parseJsonBody gets the empty string.  When the response finishes
\* only after the handler has attached its listeners (the 429 waits behind
\* the answer to an earlier request on the connection, or its write
\* completes later), the body is read as it was sent ("sent").
Readings == {"sent", "dumped"}

bodyRead(c, reading) == IF reading = "dumped" THEN "empty" ELSE c.req.body

\* The end of the request body has come and the route handler goes on:
\* parseJsonBody, then handleLaunch, which calls exec and writes its answer.
\* A writeHead on a response that was already sent throws
\* ERR_HTTP_HEADERS_SENT: the route's catch rethrows it as a ValidationError,
\* handleHttpError throws again in the catch of handleRequest and in the
\* catch of processRequest, and the rejection of processRequest reaches the
\* unhandledRejection handler.
BodyDone(k, host, reading) ==
    LET c == conn[k]
        sent == c.res # None
        parsed == parseJsonBody(bodyRead(c, reading))
        launch == handleLaunch(c.pathname, host)
        execs == IF parsed = "resolve" THEN launch.execs ELSE 0
    IN  /\ alive
        /\ c.pc = "body"
        /\ host \in HostsOf(c.pathname)
        /\ reading = "dumped" => sent /\ c.req.body # "empty"
        /\ running' = running + execs
        /\ IF sent
           THEN /\ conn' = [conn EXCEPT ![k] =
                               [c EXCEPT !.pc = "done", !.ret = "rejected",
                                         !.threw = TRUE, !.execs = execs,
                                         !.host = host,
                                         !.dumped = (reading = "dumped")]]
                /\ handleServerError("Unhandled Rejection")
           ELSE /\ conn' = [conn EXCEPT ![k] =
                               [c EXCEPT !.pc = "done", !.ret = "true",
                                         !.execs = execs, !.host = host,
                                         !.res = IF parsed = "resolve" THEN launch.res
                                                 ELSE handleHttpError(ValidationError,
                                                                      c.req)]]
                /\ UNCHANGED varsProc
        /\ UNCHANGED <<clock, varsStatic, varsRate, varsErr>>

\* The request whose response the rate limiting middleware has ended was
\* complete when the response finished: it is dumped and its 'end' is
\* emitted before the route handler has attached a listener.  The promise
\* of parseJsonBody never settles and handleRequest never returns.
BodyMissed(k) ==
    LET c == conn[k]
    IN  /\ alive
        /\ c.pc = "body"
        /\ c.res # None
        /\ conn' = [conn EXCEPT ![k] = [c EXCEPT !.pc = "waiting", !.dumped = TRUE]]
        /\ UNCHANGED <<clock, running, varsProc, varsStatic, varsRate, varsErr>>

\* mutant: the callback reports the failure of the child to the client
execCallback_respond(c) ==
    IF c.pc = "free" THEN c ELSE [c EXCEPT !.res = launchResponse(500, FALSE)]

\* the callback handed to exec: it logs the error, stderr and stdout and
\* leaves the requests and their responses alone
execCallback(c) == c

\* a child process started by exec ends and the callback of exec runs
ProcExit ==
    /\ alive
    /\ running > 0
    /\ running' = running - 1
    /\ conn' = [k \in Conns |-> execCallback(conn[k])]
    /\ UNCHANGED <<clock, varsProc, varsStatic, varsRate, varsErr>>

\* the 'error' event of the server while it is listening (a failed accept),
\* an uncaught exception or an unhandled rejection from outside request
\* handling
ServerErrorEvent(context) ==
    /\ alive
    /\ handleServerError(context)
    /\ UNCHANGED <<clock, conn, varsStatic, varsRate, varsChild, varsErr>>

\* server.listen fails (EADDRINUSE, EACCES): the 'error' event of a server
\* that has taken up no request and never will.  handleServerError logs it
\* and, outside production, exits with code 1; in production it returns,
\* and the process, with no server listening and nothing else to wait for,
\* ends with code 0.
ListenError ==
    /\ alive
    /\ conn = NoConns
    /\ errorLog' = TRUE
    /\ alive' = FALSE
    /\ exitCode' = IF nodeEnv = "production" THEN 0 ELSE 1
    /\ UNCHANGED <<nodeEnv, clock, conn, varsStatic, varsRate, varsChild, varsErr>>

-----------------------------------------------------------------------------
(* processRequest for a request no route handles: serveStaticFile          *)

StaticUrls ==
    {UrlRoot, UrlACss, UrlNoFile, UrlBelowFile} \cup {UrlStable(i) : i \in 2..maxSize}

\* GET requests that ask for JSON
StaticRequests ==
    [method : {"GET"}, url : StaticUrls, hasReq : {TRUE},
     hasAccept : {TRUE}, accept : {AcceptJson}, ip : {"ip1"}, body : {"empty"}]

\* fs.access settled: a missing file is a NotFoundError, any other failure
\* a FileError; otherwise the cache is consulted and, on a miss,
\* fs.readFile is issued
AccessDone(k) ==
    LET c == conn[k]
        filePath == filePathOf(c.pathname)
        i == cacheIndex(fileCache, filePath)
    IN  /\ alive
        /\ c.pc = "access"
        /\ IF c.io.err = "ENOENT"
           THEN /\ conn' = [conn EXCEPT ![k] = StaticError(c, NotFoundError)]
                /\ UNCHANGED fileCache
           ELSE IF c.io.err # ""
           THEN /\ conn' = [conn EXCEPT ![k] = StaticError(c, FileError(c.io.err))]
                /\ UNCHANGED fileCache
           ELSE IF cacheEnabled /\ cacheFresh(fileCache, filePath, clock)
           THEN /\ fileCache' = cacheSet(fileCache, filePath,
                                   [fileCache[i] EXCEPT !.lastAccessed = clock])
                /\ conn' = [conn EXCEPT ![k] =
                               Answered(c, fileResponse(contentTypeOf(filePath),
                                                        "public, max-age=300",
                                                        fileCache[i].content,
                                                        fileCache[i].lastModified,
                                                        TRUE))]
           ELSE /\ conn' = [conn EXCEPT ![k] =
                               [c EXCEPT !.pc = "read",
                                         !.io = fsEntry(files, filePath)]]
                /\ UNCHANGED fileCache
        /\ UNCHANGED <<clock, files, varsProc, varsRate, varsChild, varsErr>>

\* fs.readFile settled: a failure is no NotFoundError or FileError, so the
\* catch block turns it into FileError FILE_SERVE_ERROR; otherwise fs.stat
\* is issued
ReadDone(k) ==
    LET c == conn[k]
        filePath == filePathOf(c.pathname)
    IN  /\ alive
        /\ c.pc = "read"
        /\ IF c.io.err # ""
           THEN conn' = [conn EXCEPT ![k] =
                            StaticError(c, FileError("FILE_SERVE_ERROR"))]
           ELSE conn' = [conn EXCEPT ![k] =
                            [c EXCEPT !.pc = "stat",
                                      !.content = [file |-> filePath, ver |-> c.io.ver],
                                      !.io = fsEntry(files, filePath)]]
        /\ UNCHANGED <<clock, varsProc, varsStatic, varsRate, varsChild, varsErr>>

\* fs.stat settled: the entry is cached when caching is enabled and the
\* file is sent
StatDone(k) ==
    LET c == conn[k]
        filePath == filePathOf(c.pathname)
        lastModified == c.io.ver
    IN  /\ alive
        /\ c.pc = "stat"
        /\ IF c.io.err # ""
           THEN /\ conn' = [conn EXCEPT ![k] =
                               StaticError(c, FileError("FILE_SERVE_ERROR"))]
                /\ UNCHANGED fileCache
           ELSE /\ fileCache' = IF cacheEnabled
                                THEN manageCache(fileCache, filePath, c.content,
                                                 lastModified, clock)
                                ELSE fileCache
                /\ conn' = [conn EXCEPT ![k] =
                               Answered(c, fileResponse(
                                   contentTypeOf(filePath),
                                   IF cacheEnabled THEN "public, max-age=300"
                                   ELSE "no-cache",
                                   c.content, lastModified, FALSE))]
        /\ UNCHANGED <<clock, files, varsProc, varsRate, varsChild, varsErr>>

\* Date.now() advances
Tick ==
    /\ alive
    /\ clock < MaxClock
    /\ clock' = clock + 1
    /\ UNCHANGED <<conn, varsProc, varsStatic, varsRate, varsChild, varsErr>>

\* a.css is rewritten (or written again after it was deleted)
FsWrite ==
    /\ alive
    /\ files.ver < MaxVer
    /\ files' = [exists |-> TRUE, ver |-> files.ver + 1]
    /\ UNCHANGED <<clock, conn, fileCache, varsProc, varsRate, varsChild, varsErr>>

\* a.css is deleted
FsDelete ==
    /\ alive
    /\ files.exists
    /\ files' = [files EXCEPT !.exists = FALSE]
    /\ UNCHANGED <<clock, conn, fileCache, varsProc, varsRate, varsChild, varsErr>>

InitStatic ==
    /\ nodeEnv \in {"production", "development"}
    /\ clock = 0
    /\ alive = TRUE
    /\ exitCode = -1
    /\ errorLog = FALSE
    /\ files = [exists |-> TRUE, ver |-> 0]
    /\ fileCache = <<>>
    /\ conn = NoConns
    /\ InitRate
    /\ running = 0
    /\ InitErrIdle
    /\ InitClientIdle

NextStatic ==
    \/ \E k \in Conns, req \in StaticRequests :
          Arrive(k, req) /\ UNCHANGED varsClient
    \/ \E k \in Conns : AccessDone(k) /\ UNCHANGED varsClient
    \/ \E k \in Conns : ReadDone(k) /\ UNCHANGED varsClient
    \/ \E k \in Conns : StatDone(k) /\ UNCHANGED varsClient
    \/ Tick /\ UNCHANGED varsClient
    \/ FsWrite /\ UNCHANGED varsClient
    \/ FsDelete /\ UNCHANGED varsClient

SpecStatic == InitStatic /\ [][NextStatic]_vars

-----------------------------------------------------------------------------
(* SpecApi: requests to the launch routes                                  *)

\* child processes running at the same time
MaxProcs == 1

RoutePathnames == {"/api/launch-ecosystem", "/api/launch-code-processor"}

\* POSTs to the two routes (an empty and a malformed body for the one, a
\* JSON body for the other), a POST with its target in absolute form, and a
\* GET for a route's path
ApiRequests ==
    [method : {"POST"}, url : {UrlLaunchEcosystem}, hasReq : {TRUE},
     hasAccept : {TRUE}, accept : {AcceptJson}, ip : {"ip1"},
     body : {"empty", "invalid"}]
      \cup [method : {"POST"}, url : {UrlLaunchCodeProcessor}, hasReq : {TRUE},
            hasAccept : {TRUE}, accept : {AcceptJson}, ip : {"ip1"},
            body : {"valid"}]
      \cup [method : {"POST"}, url : {UrlAbsoluteLaunchEcosystem},
            hasReq : {TRUE}, hasAccept : {TRUE}, accept : {AcceptJson},
            ip : {"ip1"}, body : {"empty"}]
      \cup [method : {"GET"}, url : {UrlLaunchEcosystem},
            hasReq : {TRUE}, hasAccept : {TRUE}, accept : {AcceptJson},
            ip : {"ip1"}, body : {"empty"}]

InitApi == InitStatic

NextApi ==
    \/ \E k \in Conns, req \in ApiRequests :
          running < MaxProcs /\ Arrive(k, req) /\ UNCHANGED varsClient
    \/ \E k \in Conns, host \in EcoHosts \cup CodeHosts, reading \in Readings :
          BodyDone(k, host, reading) /\ UNCHANGED varsClient
    \/ \E k \in Conns : BodyMissed(k) /\ UNCHANGED varsClient
    \/ \E k \in Conns : AccessDone(k) /\ UNCHANGED varsClient
    \/ ProcExit /\ UNCHANGED varsClient
    \/ \E context \in {"Server", "Uncaught Exception", "Unhandled Rejection"} :
          ServerErrorEvent(context) /\ UNCHANGED varsClient
    \/ ListenError /\ UNCHANGED varsClient
    \/ Tick /\ UNCHANGED varsClient

SpecApi == InitApi /\ [][NextApi]_vars

-----------------------------------------------------------------------------
(* Browser: utils/errorHandler.js, utils/errorBridge.js                    *)

\* errorConfig.errorMessages[type] || errorConfig.defaultErrorMessage
userMessageOf(type) ==
    CASE type = "network" -> "Network error. Please check your connection and try again."
      [] type = "api" -> "Server error. Please try again later."
      [] type = "validation" -> "Please check your input and try again."
      [] type = "auth" -> "Authentication error. Please log in again."
      [] type = "notFound" -> "The requested resource was not found."
      [] type = "timeout" -> "Request timed out. Please try again."
      [] type = "unknown" -> "An unexpected error occurred. Please try again later."
      [] OTHER -> "Something went wrong. Please try again later."

\* createError(message, type, severity, originalError): a plain object
createError(message, type, severity, originalError) ==
    [kind |-> "clientError", message |-> message, type |-> type,
     severity |-> severity, originalError |-> originalError,
     userMessage |-> userMessageOf(type)]

\* an Error of the browser: the TypeError of a failed fetch, the AbortError
\* of an aborted one, the Error of timeoutPromise
NativeError(name, message) == [kind |-> "Error", name |-> name, message |-> message]

\* error.name (undefined on the objects createError makes)
errorName(error) == IF "name" \in DOMAIN error THEN error.name ELSE "undefined"

\* handleError(error, notifyUser): an object with a type is returned as it
\* is, anything else is wrapped
handleError(error) ==
    IF "type" \in DOMAIN error THEN error
    ELSE createError(error.message, "unknown", "error", error)

\* a Response of fetch; body is what response.json() would give
Response(status, body) ==
    [kind |-> "Response", status |-> status,
     ok |-> (status >= 200 /\ status <= 299), body |-> body]

\* a body JSON.parse accepts, with the object it yields, and one it rejects
JsonBody(value) == [json |-> TRUE, value |-> value]
NoJsonBody == [json |-> FALSE]

\* response.ok (undefined, so falsy, on anything that is no Response)
isOk(response) == response.kind = "Response" /\ response.ok

\* String(response.status) inside a template literal
statusText(response) ==
    IF response.kind = "Response" THEN ToString(response.status) ELSE "undefined"

\* mapServerErrorToClientError(serverError)
mapServerErrorToClientError(serverError) ==
    LET errorCode == IF "error" \in DOMAIN serverError THEN serverError.error
                     ELSE "unknown"
        message == IF "message" \in DOMAIN serverError THEN serverError.message
                   ELSE "An unknown error occurred"
        statusCode == IF "statusCode" \in DOMAIN serverError
                      THEN serverError.statusCode ELSE 500
        severity == IF statusCode >= 500 THEN "error"
                    ELSE IF statusCode >= 400 THEN "warning"
                    ELSE "info"
        type == CASE statusCode = 400 -> "validation"
                  [] statusCode \in {401, 403} -> "auth"
                  [] statusCode = 404 -> "notFound"
                  [] statusCode = 408 -> "timeout"
                  [] statusCode \in {500, 502, 503, 504} -> "api"
                  [] OTHER -> "unknown"
    IN  createError(message, type, severity,
                    [serverErrorCode |-> errorCode, statusCode |-> statusCode])

\* { ...errorData, statusCode: response.status }
withStatusCode(errorData, status) ==
    [f \in DOMAIN errorData \cup {"statusCode"} |->
        IF f = "statusCode" THEN status ELSE errorData[f]]

\* handleFetchError(response): response.json() throws when the body is no
\* JSON and when response is no Response at all
handleFetchError(response) ==
    IF response.kind = "Response" /\ response.body.json
    THEN mapServerErrorToClientError(
             withStatusCode(response.body.value, response.status))
    ELSE createError("Request failed with status: " \o statusText(response),
                     "network", "error",
                     [statusCode |-> statusText(response)])

\* The function createFetchWithErrorHandling(fetch, options) returns, applied
\* to what fetch did (outcome): it never throws, it resolves with the
\* Response or with the error object handleError returned
enhancedFetch(outcome) ==
    IF outcome.kind = "Response"
    THEN IF ~outcome.ok THEN handleError(handleFetchError(outcome))
         ELSE outcome
    ELSE handleError(createError(outcome.message, "network", "error", outcome))

-----------------------------------------------------------------------------
(* Browser: services/apiService.js                                         *)

\* apiConfig.retryAttempts
retryAttempts == 1

\* handleResponse(response): the value it returns or the error it throws
handleResponse(response) ==
    IF ~isOk(response)
    THEN [threw |-> TRUE, value |-> handleFetchError(response)]
    ELSE IF response.status = 204
    THEN [threw |-> FALSE, value |-> [success |-> TRUE]]
    ELSE IF response.body.json
    THEN [threw |-> FALSE, value |-> response.body.value]
    ELSE [threw |-> FALSE,
          value |-> [success |-> TRUE,
                     warning |-> "Response could not be parsed as JSON"]]

\* a status in the range 200-299: response.ok
okStatus(status) == status >= 200 /\ status <= 299

\* The try block of executeRequest for one attempt.  outcome is what fetch
\* did: a Response (headers and body), a rejection, or a timeout.  head is
\* the status of the headers that have arrived, 0 when none have.  At a
\* timeout the abort timer and the timer of timeoutPromise are both due:
\* when the abort is seen first, a pending fetch rejects with an AbortError,
\* which enhancedFetch turns into a value, and a pending response.json() of
\* handleFetchError rejects, which it catches like a body that is no JSON;
\* otherwise Promise.race rejects with the Error of timeoutPromise.
tryRequest(outcome, head) ==
    CASE outcome.kind = "Response" -> handleResponse(enhancedFetch(outcome))
      [] outcome.kind = "Error" -> handleResponse(enhancedFetch(outcome))
      [] outcome.kind = "timeout" /\ outcome.first = "abort" ->
            IF head = 0
            THEN handleResponse(enhancedFetch(
                     NativeError("AbortError", "The operation was aborted.")))
            ELSE handleResponse(enhancedFetch(Response(head, NoJsonBody)))
      [] outcome.kind = "timeout" /\ outcome.first = "timeoutPromise" ->
            [threw |-> TRUE,
             value |-> NativeError("Error", "Request timed out after 10000ms")]

\* if (attempt < retries)
canRetry(attempt, retries) == attempt < retries

\* const { retries = apiConfig.retryAttempts } = retryOptions
retriesOf(retryOptions) ==
    IF retryOptions.hasRetries THEN retryOptions.retries ELSE retryAttempts

\* fetchWithErrorHandling(url, options, retryOptions) up to its first call
\* of fetch.  api tells who called ("fetch": a caller of the function
\* itself, "launch": the business logic), net where the request is, spawned
\* how many exec calls the requests of this call caused on the server, head
\* the status of the response whose body is being read (0: none), at the
\* place in which the server processes the request of the attempt.
NewCall(api, feature, retryOptions) ==
    [pc |-> "fetching", api |-> api, feature |-> feature,
     retries |-> retriesOf(retryOptions), attempt |-> 0, fetches |-> 1,
     delays |-> 0, log |-> <<>>, last |-> None, value |-> None,
     error |-> None, net |-> "sent", spawned |-> 0, head |-> 0, at |-> 0]

\* executeRequest(attempt) from the moment the attempt is decided (the
\* body has been read, fetch has rejected, or the time is up): the promise
\* resolves, rejects, or waits retryDelay for the next attempt
executeRequest(c, outcome) ==
    LET r == tryRequest(outcome, c.head)
        d == [c EXCEPT !.last = outcome, !.net = "none", !.head = 0, !.at = 0]
    IN  IF ~r.threw
        THEN [d EXCEPT !.pc = "resolved", !.value = r.value,
                       !.log = Append(@, "ok")]
        ELSE IF errorName(r.value) = "AbortError"
        THEN [d EXCEPT !.pc = "rejected", !.log = Append(@, "fail"),
                       !.error = createError("Request timed out", "timeout",
                                             "error", None)]
        ELSE IF canRetry(c.attempt, c.retries)
        THEN [d EXCEPT !.pc = "delay", !.log = Append(@, "fail")]
        ELSE [d EXCEPT !.pc = "rejected", !.error = r.value,
                       !.log = Append(@, "fail")]

\* The promise of fetch resolves: the headers of a response have arrived.
\* With an ok status executeRequest clears the abort timer and
\* handleResponse awaits response.json(), except for 204, which it answers
\* without reading; with any other status handleFetchError awaits
\* response.json() inside enhancedFetch, the timers still running.
receiveHeaders(c, status) ==
    IF status = 204 THEN executeRequest(c, Response(204, NoJsonBody))
    ELSE [c EXCEPT !.pc = "reading", !.head = status]

\* the abort timer and the timer of timeoutPromise are running and the race
\* is undecided: fetch is pending, or the body of a response that is not ok
\* is being read
timeoutArmed(c) ==
    \/ c.pc = "fetching"
    \/ c.pc = "reading" /\ ~okStatus(c.head)

\* setTimeout(resolve, retryDelay) fires and executeRequest(attempt + 1)
\* calls fetch again
retryRequest(c) ==
    [c EXCEPT !.pc = "fetching", !.attempt = @ + 1, !.fetches = @ + 1,
              !.delays = @ + 1, !.net = "sent"]

-----------------------------------------------------------------------------
(* SpecFetch: fetchWithErrorHandling against every outcome of fetch        *)

\* the most retries a caller asks for
MaxRetries == 2

\* status codes a server answers with
Statuses == {200, 204, 400, 401, 403, 404, 408, 429, 500, 502, 503, 504}

\* the bodies of a server's answers: the error body of errorHandler.js, the
\* body of the rate limiting middleware, the body of a launch handler, an
\* empty object
ServerBodies(status) ==
    {JsonBody([error |-> "SERVER_CODE", message |-> "message of the server",
               statusCode |-> status]),
     JsonBody([error |-> "Too many requests", message |-> "Please try again later"]),
     JsonBody([success |-> (status = 200), message |-> "message of the server"]),
     JsonBody([x \in {} |-> ""]),
     NoJsonBody}

TimeoutOutcomes ==
    {[kind |-> "timeout", first |-> f] : f \in {"abort", "timeoutPromise"}}

RetryOptions ==
    {[hasRetries |-> FALSE, retries |-> 0]}
      \cup {[hasRetries |-> TRUE, retries |-> n] : n \in 0..MaxRetries}

InitFetch ==
    /\ nodeEnv = "development"
    /\ clock = 0
    /\ alive = TRUE
    /\ exitCode = -1
    /\ errorLog = FALSE
    /\ files = None
    /\ fileCache = <<>>
    /\ conn = NoConns
    /\ InitRate
    /\ running = 0
    /\ InitErrIdle
    /\ InitClientIdle

\* fetchWithErrorHandling(url, options, retryOptions) is called
FetchCall(retryOptions) ==
    /\ client.pc = "idle"
    /\ client' = NewCall("fetch", "", retryOptions)
    /\ UNCHANGED <<varsServer, flags, form, varsUi>>

\* the headers of a response arrive within the timeout
FetchHeaders(status) ==
    /\ client.pc = "fetching"
    /\ client.api = "fetch"
    /\ client' = receiveHeaders(client, status)
    /\ UNCHANGED <<varsServer, flags, form, varsUi>>

\* response.json() settles: the body has arrived (a body that is cut off
\* is, like one that is no JSON, a rejection of response.json())
FetchBody(body) ==
    /\ client.pc = "reading"
    /\ client.api = "fetch"
    /\ body \in ServerBodies(client.head)
    /\ client' = executeRequest(client, Response(client.head, body))
    /\ UNCHANGED <<varsServer, flags, form, varsUi>>

\* fetch rejects: the connection failed before any header arrived
FetchRejects ==
    /\ client.pc = "fetching"
    /\ client.api = "fetch"
    /\ client' = executeRequest(client, NativeError("TypeError", "Failed to fetch"))
    /\ UNCHANGED <<varsServer, flags, form, varsUi>>

\* apiConfig.timeout is over while the timers are running
FetchTimeout(outcome) ==
    /\ timeoutArmed(client)
    /\ client.api = "fetch"
    /\ client' = executeRequest(client, outcome)
    /\ UNCHANGED <<varsServer, flags, form, varsUi>>

FetchTimerStep == \E outcome \in TimeoutOutcomes : FetchTimeout(outcome)

\* the retry delay is over
RetryDelayElapsed ==
    /\ client.pc = "delay"
    /\ client' = retryRequest(client)
    /\ UNCHANGED <<varsServer, flags, form, varsUi>>

NextFetch ==
    \/ \E retryOptions \in RetryOptions : FetchCall(retryOptions)
    \/ \E status \in Statuses : FetchHeaders(status)
    \/ \E body \in UNION {ServerBodies(status) : status \in Statuses} : FetchBody(body)
    \/ FetchRejects
    \/ FetchTimerStep
    \/ RetryDelayElapsed

\* the browser's timers fire: a running timeout and a retry delay end.
\* Nothing obliges the network to deliver headers or a body.
SpecFetch ==
    InitFetch /\ [][NextFetch]_vars
        /\ WF_vars(FetchTimerStep) /\ WF_vars(RetryDelayElapsed)

-----------------------------------------------------------------------------
(* Browser: config/appConfig.js, businessLogic.js, and SpecLaunch          *)

\* a JavaScript value with its typeof
JsValue(type, value) == [type |-> type, value |-> value]

JsTrue == JsValue("boolean", "true")

\* values a feature flag can hold: true, false, 'true', 1, undefined
FlagValues ==
    {JsTrue, JsValue("boolean", "false"), JsValue("string", "true"),
     JsValue("number", "1"), JsValue("undefined", "")}

\* arguments isFeatureEnabled is called with: the two flags, a name that is
\* no flag, the empty string, a number, undefined, and an array holding the
\* name of a flag (as a property key it reads like the name)
QueryNames ==
    {JsValue("string", f) : f \in FeatureNames \cup {"noSuchFeature", ""}}
      \cup {JsValue("number", "1"), JsValue("undefined", ""),
            JsValue("object", "ecosystemSimulation")}

\* featureFlags[featureName]
flagOf(fl, key) == IF key \in DOMAIN fl THEN fl[key] ELSE JsValue("undefined", "")

\* the truthy values among FlagValues
truthy(v) == v \in {JsTrue, JsValue("string", "true"), JsValue("number", "1")}

\* mutant: a truthy flag counts as enabled
isFeatureEnabled_truthy(fl, featureName) ==
    IF featureName.value = "" \/ featureName.type # "string" THEN FALSE
    ELSE truthy(flagOf(fl, featureName.value))

\* isFeatureEnabled(featureName) with featureFlags = fl
isFeatureEnabled(fl, featureName) ==
    IF featureName.value = "" \/ featureName.type # "string" THEN FALSE
    ELSE flagOf(fl, featureName.value) = JsTrue

\* the name each launch function of businessLogic.js shows
appNameOf(feature) ==
    IF feature = "ecosystemSimulation" THEN "Ecosystem Simulation"
    ELSE "Code Processor"

\* apiConfig.endpoints
endpointOf(feature) ==
    IF feature = "ecosystemSimulation" THEN UrlLaunchEcosystem
    ELSE UrlLaunchCodeProcessor

\* the rejection of a launch whose feature is disabled
disabledResult(feature) ==
    [success |-> FALSE,
     message |-> appNameOf(feature) \o " is currently disabled",
     userMessage |-> "This feature is currently unavailable. Please try again later."]

\* { success: true, message: '... launched successfully!', ...response }
launchValue(feature, response) ==
    [f \in {"success", "message"} \cup DOMAIN response |->
        IF f \in DOMAIN response THEN response[f]
        ELSE IF f = "success" THEN TRUE
        ELSE appNameOf(feature) \o " launched successfully!"]

\* the message of the error the catch of each launch method creates
launchFailureMessage(feature) ==
    IF feature = "ecosystemSimulation"
    THEN "Failed to launch ecosystem simulation"
    ELSE "Failed to launch Code Processor"

\* the then and catch of apiService.launchEcosystemSimulation and
\* launchCodeProcessor, and the then of the business logic, on a settled
\* fetchWithErrorHandling
launchThen(c) ==
    CASE c.pc = "resolved" ->
            [c EXCEPT !.value = launchValue(c.feature, c.value)]
      [] c.pc = "rejected" ->
            [c EXCEPT !.error = createError(launchFailureMessage(c.feature),
                                            "api", "error", c.error)]
      [] OTHER -> c

\* the POST fetch sends: apiConfig.defaultHeaders, no body
launchRequest(feature) ==
    [method |-> "POST", url |-> endpointOf(feature), hasReq |-> TRUE,
     hasAccept |-> TRUE, accept |-> AcceptJson, ip |-> "ip1", body |-> "empty"]

\* the Response fetch builds from what the server wrote
responseOf(res) ==
    Response(res.status,
             IF res.body.kind = "json"
             THEN JsonBody([f \in DOMAIN res.body \ {"kind"} |-> res.body[f]])
             ELSE NoJsonBody)

InitLaunch ==
    /\ nodeEnv \in {"production", "development"}
    /\ clock = 0
    /\ alive = TRUE
    /\ exitCode = -1
    /\ errorLog = FALSE
    /\ files = [exists |-> TRUE, ver |-> 0]
    /\ fileCache = <<>>
    /\ conn = NoConns
    /\ InitRate
    /\ running = 0
    /\ InitErrIdle
    /\ flags \in [FeatureNames -> FlagValues]
    /\ client = ClientIdle
    /\ form = FormIdle
    /\ InitUi

\* some code asks isFeatureEnabled(featureName)
CheckFeature(featureName) ==
    /\ client = ClientIdle
    /\ client' = [pc |-> "idle", featureName |-> featureName,
                  enabled |-> isFeatureEnabled(flags, featureName)]
    /\ UNCHANGED <<varsServer, flags, form, varsUi>>

\* businessLogic.launchEcosystemSimulation() or launchCodeProcessor(): one
\* click on Launch Demo
LaunchCall(feature) ==
    /\ client.pc = "idle"
    /\ client' =
          IF ~isFeatureEnabled(flags, JsValue("string", feature))
          THEN [NewCall("launch", feature, [hasRetries |-> FALSE, retries |-> 0])
                   EXCEPT !.pc = "rejected", !.fetches = 0, !.net = "none",
                          !.error = disabledResult(feature)]
          ELSE NewCall("launch", feature, [hasRetries |-> FALSE, retries |-> 0])
    /\ UNCHANGED <<varsServer, flags, form, varsUi>>

\* the POST reaches the server and processRequest takes it up
NetDeliver ==
    /\ client.pc = "fetching"
    /\ client.api = "launch"
    /\ client.net = "sent"
    /\ \E k \in Conns :
          /\ Arrive(k, launchRequest(client.feature))
          /\ client' = [client EXCEPT !.net = "atServer", !.at = k]
    /\ UNCHANGED <<flags, form, varsUi>>

\* the route handler goes on for the request of the client; the exec calls
\* it makes are counted for the click
LaunchBodyDone(host) ==
    /\ client.pc # "idle"
    /\ \E k \in Conns, reading \in Readings : BodyDone(k, host, reading)
    /\ client' = [client EXCEPT !.spawned = @ + (running' - running)]
    /\ UNCHANGED <<flags, form, varsUi>>

\* the headers of the server's answer reach fetch
NetHeaders ==
    /\ client.pc = "fetching"
    /\ client.api = "launch"
    /\ client.net = "atServer"
    /\ conn[client.at].res # None
    /\ client' = launchThen(receiveHeaders(client, conn[client.at].res.status))
    /\ UNCHANGED <<varsServer, flags, form, varsUi>>

\* the body of the server's answer has been read
NetBody ==
    /\ client.pc = "reading"
    /\ client.api = "launch"
    /\ client' = launchThen(executeRequest(client, responseOf(conn[client.at].res)))
    /\ UNCHANGED <<varsServer, flags, form, varsUi>>

\* the connection fails, before or after the server got the request: a
\* pending fetch rejects, a pending response.json() rejects like one whose
\* body is no JSON
NetFail ==
    /\ client.pc \in {"fetching", "reading"}
    /\ client.api = "launch"
    /\ client' = launchThen(executeRequest(client,
                      IF client.pc = "fetching"
                      THEN NativeError("TypeError", "Failed to fetch")
                      ELSE Response(client.head, NoJsonBody)))
    /\ UNCHANGED <<varsServer, flags, form, varsUi>>

\* apiConfig.timeout is over while the timers are running
LaunchTimeout(outcome) ==
    /\ timeoutArmed(client)
    /\ client.api = "launch"
    /\ client' = launchThen(executeRequest(client, outcome))
    /\ UNCHANGED <<varsServer, flags, form, varsUi>>

NextLaunch ==
    \/ \E featureName \in QueryNames : CheckFeature(featureName)
    \/ \E feature \in FeatureNames : LaunchCall(feature)
    \/ NetDeliver
    \/ \E host \in EcoHosts \cup CodeHosts : LaunchBodyDone(host)
    \/ NetHeaders
    \/ NetBody
    \/ NetFail
    \/ \E outcome \in TimeoutOutcomes : LaunchTimeout(outcome)
    \/ RetryDelayElapsed
    \/ ProcExit /\ UNCHANGED varsClient
    \/ Tick /\ UNCHANGED varsClient

SpecLaunch == InitLaunch /\ [][NextLaunch]_vars

-----------------------------------------------------------------------------
(* Browser: utils/validation.js and the contact form                       *)

\* Strings are sequences of characters.  The characters of the model: a
\* letter, a digit, the dot, the at sign and the space.
Letters == {"a"}
Digits == {"1"}

\* n times the character ch
Rep(ch, n) == [i \in 1..n |-> ch]

\* String.prototype.trim
RECURSIVE trim(_)
trim(str) ==
    IF str = <<>> THEN str
    ELSE IF Head(str) = " " THEN trim(Tail(str))
    ELSE IF str[Len(str)] = " " THEN trim(SubSeq(str, 1, Len(str) - 1))
    ELSE str

\* str.split(sep) for a one-character separator
RECURSIVE split(_, _)
split(str, sep) ==
    IF \A i \in 1..Len(str) : str[i] # sep THEN <<str>>
    ELSE LET k == CHOOSE i \in 1..Len(str) :
                      str[i] = sep /\ \A j \in 1..(i - 1) : str[j] # sep
         IN  <<SubSeq(str, 1, k - 1)>> \o split(SubSeq(str, k + 1, Len(str)), sep)

\* every character of str is in the class
allIn(str, class) == \A i \in 1..Len(str) : str[i] \in class

\* emailRegex.test(email) on the characters of the model: the local part is
\* dot-separated runs of [^<>()\[\]\\.,;:\s@"], the domain one or more
\* labels [a-zA-Z\-0-9]+ each followed by a dot and then [a-zA-Z]{2,}
emailRegexTest(email) ==
    LET halves == split(email, "@")
        local == split(halves[1], ".")
        domain == split(halves[2], ".")
    IN  /\ Len(halves) = 2
        /\ \A i \in 1..Len(local) :
              local[i] # <<>> /\ allIn(local[i], Letters \cup Digits)
        /\ Len(domain) >= 2
        /\ \A i \in 1..(Len(domain) - 1) :
              domain[i] # <<>> /\ allIn(domain[i], Letters \cup Digits)
        /\ Len(domain[Len(domain)]) >= 2
        /\ allIn(domain[Len(domain)], Letters)

\* isValidEmail(email): the model has no upper case for toLowerCase to fold
isValidEmail(email) == IF email = <<>> THEN FALSE ELSE emailRegexTest(email)

\* formData.message.length < 10
minMessageLength == 10

\* mutant: the length of the message is not looked at
validateFormData_noLength(formData) ==
    LET nameErrors ==
            IF formData.name = <<>> \/ trim(formData.name) = <<>>
            THEN <<[field |-> "name", message |-> "Name is required"]>>
            ELSE <<>>
        emailErrors ==
            IF formData.email = <<>> \/ trim(formData.email) = <<>>
            THEN <<[field |-> "email", message |-> "Email is required"]>>
            ELSE IF ~isValidEmail(formData.email)
            THEN <<[field |-> "email",
                    message |-> "Please enter a valid email address"]>>
            ELSE <<>>
        messageErrors ==
            IF formData.message = <<>> \/ trim(formData.message) = <<>>
            THEN <<[field |-> "message", message |-> "Message is required"]>>
            ELSE <<>>
        errors == nameErrors \o emailErrors \o messageErrors
    IN  [isValid |-> errors = <<>>, errors |-> errors]

\* validateFormData(formData) of validation.js; errors lists the properties
\* of the errors object in the order they were set
validateFormData(formData) ==
    LET nameErrors ==
            IF formData.name = <<>> \/ trim(formData.name) = <<>>
            THEN <<[field |-> "name", message |-> "Name is required"]>>
            ELSE <<>>
        emailErrors ==
            IF formData.email = <<>> \/ trim(formData.email) = <<>>
            THEN <<[field |-> "email", message |-> "Email is required"]>>
            ELSE IF ~isValidEmail(formData.email)
            THEN <<[field |-> "email",
                    message |-> "Please enter a valid email address"]>>
            ELSE <<>>
        messageErrors ==
            IF formData.message = <<>> \/ trim(formData.message) = <<>>
            THEN <<[field |-> "message", message |-> "Message is required"]>>
            ELSE IF Len(formData.message) < minMessageLength
            THEN <<[field |-> "message",
                    message |-> "Message must be at least 10 characters long"]>>
            ELSE <<>>
        errors == nameErrors \o emailErrors \o messageErrors
    IN  [isValid |-> errors = <<>>, errors |-> errors]

\* validateFormWithNotifications(formData, showNotification): the
\* notifications it shows and what it returns
validateFormWithNotifications(formData) ==
    LET v == validateFormData(formData)
    IN  [isValid |-> v.isValid,
         shown |-> IF ~v.isValid
                   THEN <<[message |-> v.errors[1].message, type |-> "error"]>>
                   ELSE <<>>]

\* validation.errors as the object it is: a message under the name of each
\* field that failed
errorsObject(errors) ==
    [f \in {errors[i].field : i \in DOMAIN errors} |->
        errors[CHOOSE i \in DOMAIN errors : errors[i].field = f].message]

\* apiService.submitContactForm(formData): it validates again and either
\* rejects with a validation error or starts the timer of the mock request
submitContactForm(formData) ==
    LET validation == validateFormData(formData)
    IN  IF ~validation.isValid
        THEN [pending |-> FALSE,
              error |-> createError(validation.errors[1].message, "validation",
                                    "warning",
                                    [formData |-> formData,
                                     errors |-> errorsObject(validation.errors)])]
        ELSE [pending |-> TRUE, error |-> None]

\* how often the form is submitted
MaxSubmits == 2

FormNames == {<<>>, Rep(" ", 2), Rep("a", 2)}

FormEmails ==
    {<<>>,
     Rep(" ", 1),
     <<"a", "a">>,
     <<"a", "@", "a", "a">>,
     <<"a", "@", "a", ".", "a">>,
     <<"a", "@", "a", ".", "a", "a">>,
     <<"a", "@", "a", ".", "1", "1">>,
     <<"a", ".", "1", "@", "1", ".", "a", ".", "a", "a">>,
     <<".", "a", "@", "a", ".", "a", "a">>,
     <<"a", "@", "a", ".", "a", "a", " ">>}

FormMessages ==
    {<<>>,
     Rep(" ", minMessageLength + 2),
     Rep("a", minMessageLength - 1),
     Rep("a", minMessageLength),
     <<"a">> \o Rep(" ", minMessageLength - 1),
     <<"a">> \o Rep(" ", minMessageLength - 2)}

\* what the form is filled with: every email beside a name and a message
\* that pass, every message beside a name and an email that pass, and every
\* name with an email and a message that are empty, fail or pass
FormFields ==
    [name : {Rep("a", 2)}, email : FormEmails, subject : {<<>>},
     message : {Rep("a", minMessageLength)}]
      \cup [name : {Rep("a", 2)}, email : {<<"a", "@", "a", ".", "a", "a">>},
            subject : {<<>>}, message : FormMessages]
      \cup [name : FormNames,
            email : {<<>>, <<"a", "@", "a", ".", "1", "1">>,
                     <<"a", "@", "a", ".", "a", "a">>},
            subject : {<<>>},
            message : {<<>>, Rep("a", minMessageLength - 1),
                       Rep("a", minMessageLength)}]

\* form.reset(): every input goes back to its default value
EmptyFields == [name |-> <<>>, email |-> <<>>, subject |-> <<>>, message |-> <<>>]

InitForm ==
    /\ nodeEnv = "development"
    /\ clock = 0
    /\ alive = TRUE
    /\ exitCode = -1
    /\ errorLog = FALSE
    /\ files = None
    /\ fileCache = <<>>
    /\ conn = NoConns
    /\ InitRate
    /\ running = 0
    /\ InitErrIdle
    /\ flags = DefaultFlags
    /\ client = ClientIdle
    /\ InitUi
    /\ form \in [pc : {"ready"}, fields : FormFields, notifications : {<<>>},
                 submitted : {<<>>}, pending : {<<>>}, submits : {0},
                 resets : {0}]

-----------------------------------------------------------------------------
(* Browser: utils/notifications.js, handleAppLaunch, and SpecNotify        *)

\* notificationConfig.duration, in model ticks
duration == 2

\* notificationConfig.maxNotifications
maxNotifications == 2

\* notificationConfig.fadeOutDuration: appConfig.js defines no such
\* property, and setTimeout(f, undefined) runs f with a delay of 0
fadeOutDuration == 0

\* notification elements the page creates in one run of the model
MaxShown == 3

\* calls of update the page makes besides the one of handleAppLaunch
MaxUpdates == 1

\* setTimeout(cb, delay): one more timer whose callback cb about element n
\* is pending and has `left` ticks to go; the pending timers are a bag
setTimeout(ns, cb, n, delay) ==
    [ns EXCEPT !.timers = @ (+) SetToBag({[cb |-> cb, n |-> n, left |-> delay]})]

\* a tick has passed for every pending timer
elapse(timers) ==
    IF timers = EmptyBag THEN EmptyBag
    ELSE [u \in {[t EXCEPT !.left = @ - 1] : t \in BagToSet(timers)} |->
             timers[[u EXCEPT !.left = @ + 1]]]

\* document.createElement('div'); duration and removedBy are history: the
\* duration it was shown with, and what detached it
NewElement(d) ==
    [message |-> "", type |-> "", fadeOut |-> FALSE, duration |-> d,
     removedBy |-> "none"]

\* createOrUpdateContent: className becomes `notification ${type}`, which
\* drops a fade-out class, and innerHTML becomes the message
createOrUpdateContent(element, message, type) ==
    [element EXCEPT !.message = message, !.type = type, !.fadeOut = FALSE]

\* scheduleRemoval(notification, duration)
scheduleRemoval(ns, n, d) == setTimeout(ns, "fadeOut", n, d)

\* processQueue(): takes the head off the queue and waits its duration
processQueue(ns) ==
    IF ns.isProcessingQueue \/ ns.notificationQueue = <<>> THEN ns
    ELSE setTimeout([ns EXCEPT !.isProcessingQueue = TRUE,
                               !.notificationQueue = Tail(@)],
                    "processQueue", 0, Head(ns.notificationQueue).duration)

\* show(message, type, icon, duration): the new element is Len(elements) + 1
show(ns, message, type, d) ==
    LET n == Len(ns.elements) + 1
        shown == [ns EXCEPT
                     !.elements = Append(@, createOrUpdateContent(NewElement(d), message, type)),
                     !.body = @ \cup {n},
                     !.activeNotifications = @ \cup {n}]
    IN  IF Cardinality(shown.activeNotifications) > maxNotifications
        THEN processQueue([shown EXCEPT !.notificationQueue =
                              Append(@, [notification |-> n, duration |-> d])])
        ELSE IF d > 0 THEN scheduleRemoval(shown, n, d)
        ELSE shown

\* update(notification, message, type, icon)
update(ns, n, message, type) ==
    IF n \notin ns.activeNotifications THEN ns
    ELSE scheduleRemoval(
             [ns EXCEPT !.elements[n] = createOrUpdateContent(@, message, type)],
             n, duration)

\* the elements of `gone` leave the document and activeNotifications
detach(ns, gone, by) ==
    [ns EXCEPT
        !.body = @ \ gone,
        !.activeNotifications = @ \ gone,
        !.elements = [i \in DOMAIN ns.elements |->
                         IF i \in gone
                         THEN [ns.elements[i] EXCEPT !.removedBy = by]
                         ELSE ns.elements[i]]]

\* remove(notification)
remove(ns, n) == IF n \in ns.body THEN detach(ns, {n}, "remove") ELSE ns

\* clearAll(): remove() on every active notification, then the queue is
\* emptied
clearAll(ns) ==
    [detach(ns, ns.activeNotifications \cap ns.body, "remove")
        EXCEPT !.notificationQueue = <<>>]

\* the callback of timer t runs
runTimer(ns, t) ==
    CASE t.cb = "fadeOut" ->
             setTimeout([ns EXCEPT !.elements[t.n].fadeOut = TRUE],
                        "removeChild", t.n, fadeOutDuration)
      [] t.cb = "removeChild" ->
             IF t.n \in ns.body THEN detach(ns, {t.n}, "timer") ELSE ns
      [] t.cb = "processQueue" ->
             processQueue([ns EXCEPT !.isProcessingQueue = FALSE])
      [] OTHER -> ns

\* the outcome notification of handleAppLaunch is on display and has not
\* been for a full duration yet
Measuring ==
    /\ handler.pc = "done"
    /\ handler.notification \in notes.body
    /\ handler.shown < duration

InitNotify == InitFetch

\* some code of the page calls notificationSystem.show
Show(d) ==
    /\ Len(notes.elements) < MaxShown
    /\ notes' = show(notes, "note", "info", d)
    /\ UNCHANGED <<varsServer, flags, client, form, handler, modal, card>>

\* some code of the page calls notificationSystem.update (updates counts
\* these calls)
Update(n) ==
    /\ notes.updates < MaxUpdates
    /\ notes' = [update(notes, n, "changed", "warning") EXCEPT !.updates = @ + 1]
    /\ UNCHANGED <<varsServer, flags, client, form, handler, modal, card>>

\* some code of the page calls notificationSystem.remove
Remove(n) ==
    /\ n \in notes.body
    /\ notes' = remove(notes, n)
    /\ UNCHANGED <<varsServer, flags, client, form, handler, modal, card>>

\* some code of the page calls notificationSystem.clearAll
ClearAll ==
    /\ notes.activeNotifications # {}
    /\ notes' = clearAll(notes)
    /\ UNCHANGED <<varsServer, flags, client, form, handler, modal, card>>

\* handleAppLaunch(appName, launchFunction) is called: the 'Launching...'
\* notification is shown and the 100 ms delay starts (less than a tick)
AppLaunch ==
    /\ handler.pc = "idle"
    /\ Len(notes.elements) < MaxShown
    /\ notes' = setTimeout(show(notes, "Launching...", "info", duration),
                           "launchDelay", Len(notes.elements) + 1, 0)
    /\ handler' = [pc |-> "delay", notification |-> Len(notes.elements) + 1,
                   outcome |-> "none", shown |-> 0]
    /\ UNCHANGED <<varsServer, flags, client, form, modal, card>>

\* the promise of launchFunction() settles, after any time: .then or .catch
\* of handleAppLaunch updates the notification
LaunchSettles(outcome) ==
    /\ handler.pc = "launching"
    /\ notes' = IF outcome = "resolved"
                THEN update(notes, handler.notification, "launched successfully!", "success")
                ELSE update(notes, handler.notification, "Error launching", "error")
    /\ handler' = [handler EXCEPT !.pc = "done", !.outcome = outcome]
    /\ UNCHANGED <<varsServer, flags, client, form, modal, card>>

\* a timer that is due runs its callback
TimerFires(t) ==
    /\ t.left = 0
    /\ notes' = runTimer([notes EXCEPT !.timers = @ (-) SetToBag({t})], t)
    /\ handler' = IF t.cb = "launchDelay"
                  THEN [handler EXCEPT !.pc = "launching"]
                  ELSE handler
    /\ UNCHANGED <<varsServer, flags, client, form, modal, card>>

TimerStep == \E t \in BagToSet(notes.timers) : TimerFires(t)

\* one tick passes: no timer is overdue
TimePasses ==
    /\ \A t \in BagToSet(notes.timers) : t.left > 0
    /\ notes.timers # EmptyBag \/ Measuring
    /\ notes' = [notes EXCEPT !.timers = elapse(@)]
    /\ handler' = IF Measuring THEN [handler EXCEPT !.shown = @ + 1] ELSE handler
    /\ UNCHANGED <<varsServer, flags, client, form, modal, card>>

NextNotify ==
    \/ \E d \in {0, duration} : Show(d)
    \/ \E n \in 1..Len(notes.elements) : Update(n)
    \/ \E n \in 1..Len(notes.elements) : Remove(n)
    \/ ClearAll
    \/ AppLaunch
    \/ \E outcome \in {"resolved", "rejected"} : LaunchSettles(outcome)
    \/ TimerStep
    \/ TimePasses

\* timers fire and time passes; nothing obliges the page to call anything
SpecNotify ==
    InitNotify /\ [][NextNotify]_vars /\ WF_vars(TimerStep) /\ WF_vars(TimePasses)

-----------------------------------------------------------------------------
(* SpecForm: the submit handler of the contact form                        *)

\* the user fills in the form
FormEdit(fields) ==
    /\ form.pc = "ready"
    /\ form.submits < MaxSubmits
    /\ form' = [form EXCEPT !.fields = fields]
    /\ UNCHANGED <<varsServer, flags, client, varsUi>>

\* submitHandler(e) of handleContactForm; what it shows goes to the
\* notification system (form.notifications is the history of those calls)
FormSubmit ==
    LET formData == form.fields
        checked == validateFormWithNotifications(formData)
        sent == submitContactForm(formData)
        shown == IF ~checked.isValid THEN checked.shown
                 ELSE IF ~sent.pending
                 THEN <<[message |-> sent.error.userMessage, type |-> "error"]>>
                 ELSE <<>>
    IN  /\ form.pc = "ready"
        /\ form.submits < MaxSubmits
        /\ notes' = IF shown = <<>> THEN notes
                    ELSE show(notes, shown[1].message, shown[1].type, duration)
        /\ form' =
              IF ~checked.isValid
              THEN [form EXCEPT !.submits = @ + 1,
                                !.notifications = @ \o checked.shown]
              ELSE IF ~sent.pending
              THEN [form EXCEPT !.submits = @ + 1,
                                !.notifications =
                                    Append(@, [message |-> sent.error.userMessage,
                                               type |-> "error"])]
              ELSE [form EXCEPT !.submits = @ + 1,
                                !.submitted = Append(@, formData),
                                !.pending = Append(@, formData)]
        /\ UNCHANGED <<varsServer, flags, client, handler, modal, card>>

\* the timer of the mock request fires: the promise resolves, the success
\* message is shown and the form is reset
FormResolve ==
    /\ form.pc = "ready"
    /\ form.pending # <<>>
    /\ form' = [form EXCEPT
                   !.pending = Tail(@),
                   !.notifications =
                       Append(@, [message |-> "Your message has been sent successfully!",
                                  type |-> "success"]),
                   !.fields = EmptyFields,
                   !.resets = @ + 1]
    /\ notes' = show(notes, "Your message has been sent successfully!",
                     "success", duration)
    /\ UNCHANGED <<varsServer, flags, client, handler, modal, card>>

NextForm ==
    \/ \E fields \in FormFields : FormEdit(fields)
    \/ FormSubmit
    \/ FormResolve
    \/ TimerStep
    \/ TimePasses

SpecForm == InitForm /\ [][NextForm]_vars

-----------------------------------------------------------------------------
(* Browser: ui/Modal.js, and SpecModal                                     *)

\* the delay of the timer open() starts (10 ms), in model ticks
ActivationDelay == 1

\* the delay of the timer close() starts (300 ms), in model ticks
RemovalDelay == 3

\* calls of open() in one run of the model
MaxOpens == 3

\* calls of close() in one run of the model
MaxCloses == 2

\* setTimeout(cb, delay) in Modal.js: one more pending timer
modalTimeout(m, cb, delay) ==
    [m EXCEPT !.timers = @ (+) SetToBag({[cb |-> cb, left |-> delay]})]

\* create(): a new element (numbered from 1), and addEventListeners sets
\* escHandler
create(m) ==
    [m EXCEPT !.created = @ + 1, !.modal = m.created + 1, !.escHandler = TRUE]

\* open()
open(m) ==
    LET made == IF m.modal = 0 THEN create(m) ELSE m
    IN  modalTimeout([made EXCEPT !.body = @ \cup {made.modal},
                                  !.element = made.modal,
                                  !.lastCall = "open"],
                     "activate", ActivationDelay)

\* close()
close(m) ==
    IF m.modal = 0 THEN [m EXCEPT !.lastCall = "close"]
    ELSE modalTimeout([m EXCEPT !.escHandler = FALSE,
                                !.active = @ \ {m.modal},
                                !.lastCall = "close"],
                      "removeChild", RemovalDelay)

\* the callback of open()'s timer: this.modal is read when it runs, and
\* classList of null throws a TypeError
activate(m) ==
    IF m.modal = 0 THEN [m EXCEPT !.threw = TRUE]
    ELSE [m EXCEPT !.active = @ \cup {m.modal}]

\* the callback of close()'s timer
removeChild(m) ==
    [m EXCEPT !.body = IF m.modal # 0 /\ m.modal \in m.body
                       THEN @ \ {m.modal} ELSE @,
              !.modal = 0,
              !.element = 0]

InitModal == InitFetch

\* modal.open() is called, by handleProjectOverview or again by the page
ModalOpen ==
    /\ modal.opens < MaxOpens
    /\ modal' = [open(modal) EXCEPT !.opens = @ + 1]
    /\ UNCHANGED <<varsServer, flags, client, form, notes, handler, card>>

\* modal.close() is called: the close button, a click outside, Escape, or
\* the page
ModalClose ==
    /\ modal.closes < MaxCloses
    /\ modal' = [close(modal) EXCEPT !.closes = @ + 1]
    /\ UNCHANGED <<varsServer, flags, client, form, notes, handler, card>>

\* a timer of the modal that is due runs its callback
ModalTimer(t) ==
    /\ t.left = 0
    /\ modal' = IF t.cb = "activate"
                THEN activate([modal EXCEPT !.timers = @ (-) SetToBag({t})])
                ELSE removeChild([modal EXCEPT !.timers = @ (-) SetToBag({t})])
    /\ UNCHANGED <<varsServer, flags, client, form, notes, handler, card>>

\* one tick passes: no timer of the modal is overdue
ModalTick ==
    /\ modal.timers # EmptyBag
    /\ \A t \in BagToSet(modal.timers) : t.left > 0
    /\ modal' = [modal EXCEPT !.timers = elapse(@)]
    /\ UNCHANGED <<varsServer, flags, client, form, notes, handler, card>>

NextModal ==
    \/ ModalOpen
    \/ ModalClose
    \/ \E t \in BagToSet(modal.timers) : ModalTimer(t)
    \/ ModalTick

SpecModal == InitModal /\ [][NextModal]_vars

-----------------------------------------------------------------------------
(* Browser: data/projectData.js, ui/uiComponents.js, and SpecCards         *)

UpperCase ==
    <<"A", "B", "C", "D", "E", "F", "G", "H", "I", "J", "K", "L", "M",
      "N", "O", "P", "Q", "R", "S", "T", "U", "V", "W", "X", "Y", "Z">>

LowerCase ==
    <<"a", "b", "c", "d", "e", "f", "g", "h", "i", "j", "k", "l", "m",
      "n", "o", "p", "q", "r", "s", "t", "u", "v", "w", "x", "y", "z">>

\* String.prototype.toLowerCase on a string given as its characters
toLowerCase(str) ==
    [i \in DOMAIN str |->
        IF \E k \in DOMAIN UpperCase : UpperCase[k] = str[i]
        THEN LowerCase[CHOOSE k \in DOMAIN UpperCase : UpperCase[k] = str[i]]
        ELSE str[i]]

\* str.replace(/\s+/g, '')
removeWhitespace(str) == SelectSeq(str, LAMBDA c : c # " ")

\* the flags SpecCards varies: those named after a project
CardFlagNames == FeatureNames \cup {"caesarCipher"}

\* projectData: key (as characters), and capabilities
Project(key, hasDemo, demoUrl, hasLaunch, launchHandler, hasCode) ==
    [key |-> key, hasDemo |-> hasDemo, demoUrl |-> demoUrl,
     hasLaunch |-> hasLaunch, launchHandler |-> launchHandler,
     hasCode |-> hasCode]

caesarCipher ==
    Project(<<"c", "a", "e", "s", "a", "r", "C", "i", "p", "h", "e", "r">>,
            TRUE, "/projects/caesar-cipher/index.html", FALSE, "", TRUE)

ecosystem ==
    Project(<<"e", "c", "o", "s", "y", "s", "t", "e", "m">>,
            FALSE, "", TRUE, "launchEcosystemSimulation", TRUE)

codeProcessor ==
    Project(<<"c", "o", "d", "e", "P", "r", "o", "c", "e", "s", "s", "o", "r">>,
            FALSE, "", TRUE, "launchCodeProcessor", TRUE)

crm == Project(<<"c", "r", "m">>, FALSE, "", FALSE, "", FALSE)

taskManager ==
    Project(<<"t", "a", "s", "k", "M", "a", "n", "a", "g", "e", "r">>,
            FALSE, "", FALSE, "", FALSE)

healthcarePortal ==
    Project(<<"h", "e", "a", "l", "t", "h", "c", "a", "r", "e",
              "P", "o", "r", "t", "a", "l">>,
            FALSE, "", FALSE, "", FALSE)

\* getAllProjects()
getAllProjects ==
    {caesarCipher, ecosystem, codeProcessor, crm, taskManager, healthcarePortal}

\* the launch handlers main.js can pass to the card
LaunchHandlers == {"launchEcosystemSimulation", "launchCodeProcessor"}

\* isProjectFeatureEnabled(projectKey) with featureFlags = fl
isProjectFeatureEnabled(fl, projectKey) ==
    IF projectKey = <<>> THEN TRUE
    ELSE LET projectFeature == join(removeWhitespace(toLowerCase(projectKey)))
         IN  \/ isFeatureEnabled(fl, JsValue("string", projectFeature))
             \/ projectFeature \notin DOMAIN fl

\* addLink(options): the link createCardLink makes
Link(text, isButton) == [text |-> text, isButton |-> isButton]

\* createOverviewButton
createOverviewButton(project) == <<Link("Overview", TRUE)>>

\* createDemoLink
createDemoLink(fl, project) ==
    IF ~project.hasDemo \/ project.demoUrl = "" THEN <<>>
    ELSE IF isProjectFeatureEnabled(fl, project.key)
         THEN <<Link("Try Demo", FALSE)>>
         ELSE <<>>

\* createLaunchButton
createLaunchButton(fl, project, handlers) ==
    IF ~project.hasLaunch \/ project.launchHandler = "" THEN <<>>
    ELSE IF /\ isProjectFeatureEnabled(fl, project.key)
            /\ project.launchHandler \in handlers
         THEN <<Link("Launch Demo", TRUE)>>
         ELSE <<>>

\* createCodeLink (every project with hasCode has a codeUrl)
createCodeLink(project) ==
    IF ~project.hasCode THEN <<>> ELSE <<Link("View Code", FALSE)>>

\* createProjectLinks(project, handlers): the links in document order
createProjectLinks(fl, project, handlers) ==
    createOverviewButton(project)
        \o createDemoLink(fl, project)
        \o createLaunchButton(fl, project, handlers)
        \o createCodeLink(project)

\* appConfig.js is loaded with any values for the flags named after projects
InitCards ==
    /\ nodeEnv = "development"
    /\ clock = 0
    /\ alive = TRUE
    /\ exitCode = -1
    /\ errorLog = FALSE
    /\ files = None
    /\ fileCache = <<>>
    /\ conn = NoConns
    /\ InitRate
    /\ running = 0
    /\ InitErrIdle
    /\ flags \in [CardFlagNames -> FlagValues]
    /\ client = ClientIdle
    /\ form = FormIdle
    /\ InitUi

\* createProjectCard(project, handlers): the card's links
RenderCard(project, handlers) ==
    /\ card' = [kind |-> "card", project |-> project, handlers |-> handlers,
                links |-> createProjectLinks(flags, project, handlers)]
    /\ UNCHANGED <<varsServer, flags, client, form, notes, handler, modal>>

NextCards ==
    \E project \in getAllProjects : \E handlers \in SUBSET LaunchHandlers :
        RenderCard(project, handlers)

SpecCards == InitCards /\ [][NextCards]_vars

-----------------------------------------------------------------------------
(* Claims                                                                  *)

\* the status code of an error's category, as the error classes document it
CategoryStatus(error) ==
    IF error.kind = "AppError"
    THEN CASE error.cls = "NotFoundError" -> 404
           [] error.cls = "ValidationError" -> 400
           [] error.cls = "ServerError" -> 500
           [] error.cls = "FileError" -> 500
    ELSE IF error.code = "ENOENT" THEN 404 ELSE 500

\* the Accept header of the request contains 'application/json'
AcceptContainsJson(req) ==
    /\ req.hasReq
    /\ req.hasAccept
    /\ \E i \in 1..Len(req.accept) :
          /\ i + 2 <= Len(req.accept)
          /\ SubSeq(req.accept, i, i + 2) = ApplicationJson

\* C3: handleHttpError answers with the status code of the error's category
\* (a plain runtime error is mapped first: ENOENT 404, any other code 500) and
\* the body is JSON exactly when the Accept header contains
\* 'application/json', an HTML error page otherwise.
C3_StatusAndFormat ==
    eRes # None =>
        /\ eRes.status = CategoryStatus(eIn.error)
        /\ (eRes.contentType = "application/json") <=> AcceptContainsJson(eIn.req)
        /\ (eRes.body.kind = "json") <=> AcceptContainsJson(eIn.req)
        /\ ~AcceptContainsJson(eIn.req) =>
              eRes.contentType = "text/html" /\ eRes.body.kind = "html"
        /\ eRes.body.statusCode = eRes.status

\* C3 witness: a runtime error other than ENOENT answered as JSON because the
\* header holds application/json after another media type
C3_Witness ==
    /\ eRes # None
    /\ eIn.error.kind = "Error"
    /\ eIn.error.code = "EACCES"
    /\ eIn.req.hasAccept
    /\ Len(eIn.req.accept) = 4
    /\ eIn.req.accept[1] = "text"
    /\ eRes.contentType = "application/json"
    /\ eRes.status = 500

\* C5: per ip and instant t at most limit accepted requests lie in
\* (t - windowMs, t]; a call made while limit accepted requests of the ip lie
\* in the window is rejected; the stored list never exceeds limit elements.
C5_SlidingWindow ==
    /\ \A ip \in IPs : \A t \in 0..MaxClock : InWindow(accepted[ip], t) <= limit
    /\ \A ip \in IPs : Len(requests[ip]) <= limit
    /\ (lastCheck.kind = "check" /\ lastCheck.inWindow >= limit) => ~lastCheck.ok

\* C5 witness: a call was rejected at a full window, and the same ip has had
\* more than limit requests accepted overall (the window slid)
C5_Witness ==
    /\ lastCheck.kind = "check"
    /\ ~lastCheck.ok
    /\ lastCheck.inWindow = limit
    /\ Len(accepted[lastCheck.ip]) > limit

\* the request was one no route handles, and it has been answered
StaticDone(c) == c.pc = "done" /\ c.ret = "false"

\* the resolved path named nothing when the request came in: fs.access
\* failed because the file, or a directory on the way to it, is not there
PathMissing(c) == c.access \in {"ENOENT", "ENOTDIR"}

\* C1 (as claimed): a request no route handles whose resolved path does not
\* exist at the time of the request is answered 404 with the NOT_FOUND error
\* body, whether or not the cache holds a fresh entry for the path.
C1_MissingIs404 ==
    \A k \in Conns :
        (StaticDone(conn[k]) /\ PathMissing(conn[k])) =>
            /\ conn[k].res.status = 404
            /\ conn[k].res.xErrorCode = "NOT_FOUND"

\* the request was a POST to a launch route, and it has been answered or
\* given up
LaunchDone(c) ==
    /\ c.pc = "done"
    /\ c.req.method = "POST"
    /\ c.pathname \in RoutePathnames

\* the project path or, for the code processor, the executable is not there
HostMissing(c) == c.host = "nopath" \/ c.host = "noexe"

HasSuccessField(c) == "success" \in DOMAIN c.res.body

\* C2 (as claimed): every POST to a launch route gets a JSON body with a
\* boolean success field, 200 and success:true exactly when the executable
\* was spawned, 500 and success:false when the project path or executable
\* does not exist, and then nothing is spawned.
C2_Original ==
    \A k \in Conns :
        LET c == conn[k]
        IN  LaunchDone(c) =>
                /\ c.res.contentType = "application/json"
                /\ HasSuccessField(c)
                /\ c.res.body.success \in BOOLEAN
                /\ (c.res.status = 200 /\ c.res.body.success) <=> c.execs = 1
                /\ HostMissing(c) =>
                      c.res.status = 500 /\ ~c.res.body.success /\ c.execs = 0

\* C2 (amended): a POST to a launch route that the rate limiting middleware
\* lets pass and whose body is empty or valid JSON gets a JSON body with a
\* boolean success field, 200 and success:true exactly when the executable
\* was spawned, 500 and success:false when the project path or executable
\* does not exist; a body that is not valid JSON is answered 400 with the
\* VALIDATION_ERROR body, which has no success field, and a request the
\* middleware stops 429; whenever the path or executable does not exist
\* nothing is spawned.
C2_LaunchAnswer ==
    \A k \in Conns :
        LET c == conn[k]
        IN  LaunchDone(c) =>
                /\ HostMissing(c) => c.execs = 0
                /\ c.limited => c.res.status = 429 /\ ~HasSuccessField(c)
                /\ (~c.limited /\ c.req.body = "invalid") =>
                      /\ c.res.status = 400
                      /\ c.res.xErrorCode = "VALIDATION_ERROR"
                      /\ ~HasSuccessField(c)
                      /\ c.execs = 0
                /\ (~c.limited /\ c.req.body # "invalid") =>
                      /\ c.res.contentType = "application/json"
                      /\ HasSuccessField(c)
                      /\ c.res.body.success \in BOOLEAN
                      /\ (c.res.status = 200 /\ c.res.body.success) <=> c.execs = 1
                      /\ c.res.status \in {200, 500}
                      /\ c.res.status = 500 => ~c.res.body.success
                      /\ HostMissing(c) => c.res.status = 500

\* C2 witness: a POST with a JSON body for the code processor, whose
\* executable is missing, passed the rate limiter and was answered 500
\* success:false while a child started for another request was running
C2_Witness ==
    \E k \in Conns :
        LET c == conn[k]
        IN  /\ LaunchDone(c)
            /\ c.checked
            /\ ~c.limited
            /\ c.req.body = "valid"
            /\ c.pathname = "/api/launch-code-processor"
            /\ c.host = "noexe"
            /\ c.res.status = 500
            /\ ~c.res.body.success
            /\ running > 0

\* C4 (as claimed): with caching enabled the file cache never holds more
\* than config.cache.maxSize entries, nor two entries for one file path.
C4_CacheBounded ==
    cacheEnabled =>
        /\ Len(fileCache) <= maxSize
        /\ \A i, j \in 1..Len(fileCache) :
              fileCache[i].key = fileCache[j].key => i = j

\* C6 (as claimed): without a handler for the key method:pathname
\* handleRequest returns false, runs no middleware and writes nothing; with
\* one it runs the global middleware in registration order, the route's
\* middleware and the handler, and returns true, also when the handler throws.
C6_HandleRequest ==
    \A k \in Conns :
        LET c == conn[k]
        IN  c.pc # "free" =>
                IF routeKey(c.req.method, c.pathname) \notin Routes
                THEN /\ c.ret = "false"
                     /\ c.trace = <<>>
                     /\ c.pc = "access" => c.res = None
                ELSE /\ c.trace = GlobalMiddleware \o RouteMiddleware \o <<"handler">>
                     /\ c.pc = "done" => c.ret = "true"

\* C7: the success response is written in the step that calls exec, while
\* the child runs; a child's exit changes no response and nothing else of
\* the server; every 200 answer of a launch handler goes with exactly one
\* new child process, and only a child's own exit ends it.
C7_FireAndForget ==
    [][ /\ \A k \in Conns :
              (conn[k].pc = "body" /\ conn'[k].pc = "done" /\ conn[k].res = None) =>
                  /\ conn'[k].execs = 1 <=> conn'[k].res.status = 200
                  /\ running' = running + conn'[k].execs
        /\ running' # running => UNCHANGED <<requests, fileCache, files>>
        /\ running' < running =>
              /\ running' = running - 1
              /\ UNCHANGED <<conn, clock, nodeEnv, alive, exitCode, errorLog>>
      ]_vars

\* C7 witness: a launch was answered 200 while another request waited for
\* its body, and every child started so far has exited since; the answer
\* stands as it was written
C7_Witness ==
    \E k, j \in Conns :
        /\ LaunchDone(conn[k])
        /\ conn[k].res.status = 200
        /\ conn[k].res.body.success
        /\ conn[k].execs = 1
        /\ conn[j].pc = "body"
        /\ running = 0
        /\ Len(accepted["ip1"]) >= 2

\* C8 (as claimed): once handleServerError has run the process has exited
\* with code 1 unless NODE_ENV is 'production'; in production it keeps
\* running, and without such an error it runs in either mode.
C8_Original ==
    /\ errorLog =>
          IF nodeEnv = "production"
          THEN alive /\ exitCode = -1
          ELSE ~alive /\ exitCode = 1
    /\ ~errorLog => alive /\ exitCode = -1

\* C8 (amended): once an uncaught exception, an unhandled rejection or a
\* server 'error' event has been handled the process has exited with code 1
\* unless NODE_ENV is 'production'; in production it was only logged: the
\* process keeps running, except after the 'error' event of a listen that
\* failed, where it has taken up no request and has ended by itself (code
\* 0, never 1); without such an error the process runs in either mode.
C8_ExitOnlyOutsideProduction ==
    /\ errorLog =>
          IF nodeEnv = "production"
          THEN \/ alive /\ exitCode = -1
               \/ ~alive /\ exitCode = 0 /\ conn = NoConns
          ELSE ~alive /\ exitCode = 1
    /\ ~errorLog => alive /\ exitCode = -1

\* C8 witness: in production a request that came in after an error was
\* logged has been served
C8_Witness ==
    /\ nodeEnv = "production"
    /\ errorLog
    /\ \E k \in Conns :
          /\ conn[k].pc = "done"
          /\ conn[k].afterError
          /\ conn[k].res.status = 200

\* C9: outside production the file cache stays empty, every static 200
\* response is read from disk and carries Cache-Control: no-cache; in
\* production every static 200 response carries public, max-age=300.
C9_CachingByEnvironment ==
    /\ nodeEnv # "production" => fileCache = <<>>
    /\ \A k \in Conns :
          (StaticDone(conn[k]) /\ conn[k].res.status = 200) =>
              IF nodeEnv = "production"
              THEN conn[k].res.cacheControl = "public, max-age=300"
              ELSE conn[k].res.cacheControl = "no-cache" /\ ~conn[k].res.fromCache

\* C9 witness: in development a.css was served a second version from disk
\* while another request was waiting for the file system
C9_Witness ==
    /\ nodeEnv = "development"
    /\ \E k, j \in Conns :
          /\ StaticDone(conn[k])
          /\ conn[k].pathname = "/a.css"
          /\ conn[k].res.status = 200
          /\ conn[k].res.content.ver = 1
          /\ conn[k].res.cacheControl = "no-cache"
          /\ conn[j].pc \in {"access", "read", "stat"}

\* C10 (as claimed): a request for an unknown path (no route, no such file)
\* is answered with the content of index.html.
C10_FallbackToIndex ==
    \A k \in Conns :
        (StaticDone(conn[k]) /\ PathMissing(conn[k])) =>
            /\ conn[k].res.status = 200
            /\ conn[k].res.content.file = "/index.html"

\* the request has a route: the middleware and the handler are its
Routed(c) == c.pc # "free" /\ routeKey(c.req.method, c.pathname) \in Routes

\* C15 (as claimed): when the rate limiting middleware answers 429 the route
\* handler is not executed for that request: no child process is started
\* and nothing further is written to the response.
C15_RateLimitedNotHandled ==
    \A k \in Conns :
        LET c == conn[k]
        IN  (Routed(c) /\ c.res = tooManyRequests) =>
                /\ \A i \in 1..Len(c.trace) : c.trace[i] # "handler"
                /\ c.execs = 0
                /\ ~c.threw

\* C16 (as claimed): every request that has been dealt with got exactly one
\* response, and no code path tried to write a second one after it was sent.
C16_ExactlyOneResponse ==
    \A k \in Conns :
        conn[k].pc = "done" =>
            /\ conn[k].res # None
            /\ ~conn[k].threw

\* the keys of the cache
cacheKeys(cache) == {cache[i].key : i \in 1..Len(cache)}

\* C17 (as claimed): when manageCache inserts into a cache that is at
\* capacity exactly one entry is removed, and it is one with the smallest
\* lastAccessed of all entries (so never one that was just served from the
\* cache while an entry accessed earlier exists).
C17_EvictsLeastRecent ==
    [][ \A k \in Conns :
          (/\ cacheEnabled
           /\ conn[k].pc = "stat"
           /\ conn'[k].pc = "done"
           /\ conn'[k].res.status = 200
           /\ Len(fileCache) >= maxSize) =>
              \E i \in 1..Len(fileCache) :
                  /\ \A j \in 1..Len(fileCache) :
                        fileCache[i].lastAccessed <= fileCache[j].lastAccessed
                  /\ cacheKeys(fileCache') =
                        (cacheKeys(fileCache) \ {fileCache[i].key})
                           \cup {filePathOf(conn[k].pathname)}
      ]_vars

\* C18: a request is served from the cache only while less than ttl has
\* passed since the entry was cached; a hit sets lastAccessed and leaves
\* timestamp and content alone; a request that finds an expired entry reads
\* the file from disk, and the read puts the fresh content under the same
\* key, once, with a new timestamp.
C18_TtlExpiry ==
    [][ \A n \in Conns :
          LET c == conn[n]
              d == conn'[n]
              filePath == filePathOf(c.pathname)
              i == cacheIndex(fileCache, filePath)
              k == cacheIndex(fileCache', filePath)
          IN  /\ (c.pc = "access" /\ d.pc = "done" /\ d.res.status = 200) =>
                    /\ i # 0
                    /\ clock - fileCache[i].timestamp < ttl
                    /\ d.res.fromCache
                    /\ d.res.content = fileCache[i].content
                    /\ fileCache' = [fileCache EXCEPT ![i].lastAccessed = clock]
              /\ (/\ c.pc = "access" /\ d # c /\ c.io.err = ""
                  /\ i # 0 /\ clock - fileCache[i].timestamp >= ttl) =>
                    d.pc = "read" /\ fileCache' = fileCache
              /\ (/\ cacheEnabled /\ c.pc = "stat" /\ d.pc = "done"
                  /\ d.res.status = 200) =>
                    /\ k # 0
                    /\ fileCache'[k].timestamp = clock
                    /\ fileCache'[k].content = c.content
                    /\ d.res.content = c.content
                    /\ Cardinality({j \in 1..Len(fileCache') :
                                       fileCache'[j].key = filePath}) = 1
      ]_vars

\* C18 witness: a request goes to the disk although the cache holds its
\* file, because the entry is ttl old; a hit had refreshed lastAccessed less
\* than ttl ago
C18_Witness ==
    /\ cacheEnabled
    /\ \E n \in Conns :
          /\ conn[n].pc = "read"
          /\ \E i \in 1..Len(fileCache) :
                /\ fileCache[i].key = filePathOf(conn[n].pathname)
                /\ clock - fileCache[i].timestamp >= ttl
                /\ clock - fileCache[i].lastAccessed < ttl
                /\ fileCache[i].lastAccessed > fileCache[i].timestamp

\* the launch handler ran for the request, and what it did is what
\* handleLaunch does on that host
LaunchProceeded(c) ==
    /\ c.host \in HostsOf(c.pathname)
    /\ c.execs = handleLaunch(c.pathname, c.host).execs
    /\ c.res = handleLaunch(c.pathname, c.host).res

\* C19 (as claimed): a POST to a launch route with a non-empty body that is
\* not valid JSON is answered 400 VALIDATION_ERROR and starts no child
\* process; an empty body is parsed as {} and the launch proceeds.
C19_Original ==
    \A k \in Conns :
        LET c == conn[k]
        IN  LaunchDone(c) =>
                /\ c.req.body = "invalid" =>
                      /\ c.res.status = 400
                      /\ c.res.xErrorCode = "VALIDATION_ERROR"
                      /\ c.execs = 0
                /\ c.req.body = "empty" => LaunchProceeded(c)

\* the promise fetchWithErrorHandling returned has settled
Settled == client.pc \in {"resolved", "rejected"}

\* what fetch did was a success: a Response with a 2xx status
OutcomeOk(outcome) ==
    outcome.kind = "Response" /\ outcome.status >= 200 /\ outcome.status <= 299

\* C11, the part about states: at most retries + 1 calls of fetch, one wait
\* of retryDelay before each call but the first; the promise resolves only
\* on the first successful attempt, with the parsed body of its response,
\* and rejects only when retries + 1 attempts have failed, with an error made
\* from the last one.
C11_Attempts ==
    client.pc # "idle" =>
        /\ client.fetches <= client.retries + 1
        /\ client.delays = client.fetches - 1
        /\ client.fetches = client.attempt + 1
        /\ client.pc \in {"fetching", "reading", "delay"} =>
              \A i \in 1..Len(client.log) : client.log[i] = "fail"
        /\ client.pc \in {"fetching", "reading"} =>
              Len(client.log) = client.fetches - 1
        /\ client.pc \notin {"fetching", "reading"} =>
              Len(client.log) = client.fetches
        /\ client.pc = "resolved" =>
              /\ OutcomeOk(client.last)
              /\ \A i \in 1..(Len(client.log) - 1) : client.log[i] = "fail"
              /\ (client.last.body.json /\ client.last.status # 204) =>
                    client.value = client.last.body.value
              /\ client.error = None
        /\ client.pc = "rejected" =>
              /\ ~OutcomeOk(client.last)
              /\ client.fetches = client.retries + 1
              /\ \A i \in 1..Len(client.log) : client.log[i] = "fail"
              /\ client.error.kind \in {"clientError", "Error"}
              /\ client.value = None

\* C11 (as claimed): fetchWithErrorHandling makes at most retries + 1
\* attempts (2 with the default), waits retryDelay between them and always
\* settles: it resolves with the parsed response of the first successful
\* attempt or rejects with the error of the last attempt.
C11_BoundedRetries ==
    /\ []C11_Attempts
    /\ (client.pc # "idle") ~> Settled
    /\ [](client.pc # "idle" /\ client.retries = retryAttempts =>
             client.fetches <= 2)

\* the type and the severity the error bridge documents for a status code
TypeOfStatus(status) ==
    CASE status = 400 -> "validation"
      [] status = 401 -> "auth"
      [] status = 403 -> "auth"
      [] status = 404 -> "notFound"
      [] status = 408 -> "timeout"
      [] status = 500 -> "api"
      [] status = 502 -> "api"
      [] status = 503 -> "api"
      [] status = 504 -> "api"
      [] OTHER -> "unknown"

SeverityOfStatus(status) == IF status >= 500 THEN "error" ELSE "warning"

\* C14 (as claimed): when the server answered the last attempt with a
\* non-2xx status and a JSON body that has a message, the error
\* fetchWithErrorHandling rejects with carries that message and the type
\* and severity mapped from the status code.
C14_BridgedError ==
    (/\ client.pc = "rejected"
     /\ client.api = "fetch"
     /\ client.last.kind = "Response"
     /\ client.last.body.json
     /\ "message" \in DOMAIN client.last.body.value) =>
        /\ client.error.message = client.last.body.value.message
        /\ client.error.type = TypeOfStatus(client.last.status)
        /\ client.error.severity = SeverityOfStatus(client.last.status)

\* a launch function of the business logic has been called
Launched == client.pc # "idle" /\ client.api = "launch"

\* C12: a launch whose feature flag is not exactly true rejects with the
\* 'currently disabled' result and sends nothing to the server; one whose
\* flag is true calls fetch; isFeatureEnabled answers true only for a string
\* that names a flag whose value is exactly true.
C12_FeatureFlagGate ==
    /\ (Launched /\ flags[client.feature] # JsTrue) =>
          /\ client.pc = "rejected"
          /\ client.error = disabledResult(client.feature)
          /\ ~client.error.success
          /\ client.fetches = 0
          /\ client.net = "none"
          /\ conn = NoConns
          /\ running = 0
    /\ (Launched /\ flags[client.feature] = JsTrue) => client.fetches >= 1
    /\ (client.pc = "idle" /\ client # ClientIdle) =>
          (client.enabled <=>
              /\ client.featureName.type = "string"
              /\ client.featureName.value \in FeatureNames
              /\ flags[client.featureName.value].type = "boolean"
              /\ flags[client.featureName.value].value = "true")

\* C12 witness: the flag of the ecosystem simulation holds the string
\* 'true', the launch was rejected as disabled and nothing was sent
C12_Witness ==
    /\ Launched
    /\ client.feature = "ecosystemSimulation"
    /\ flags["ecosystemSimulation"] = JsValue("string", "true")
    /\ client.pc = "rejected"
    /\ client.error.message = "Ecosystem Simulation is currently disabled"
    /\ client.fetches = 0
    /\ conn = NoConns

\* C20 (as claimed): one call of launchEcosystemSimulation or
\* launchCodeProcessor starts at most one child process on the server, also
\* when the request fails or times out in the browser.
C20_AtMostOneSpawn ==
    Launched => client.spawned <= 1

\* the string has a character that is no white space
NonBlank(str) == \E i \in 1..Len(str) : str[i] # " "

\* the data passes validation as the form documents it
FormValid(fields) ==
    /\ NonBlank(fields.name)
    /\ NonBlank(fields.email)
    /\ isValidEmail(fields.email)
    /\ NonBlank(fields.message)
    /\ Len(fields.message) >= 10

\* the message for the first field, in the order name, email, message, that
\* fails validation
FirstFailure(fields) ==
    IF ~NonBlank(fields.name) THEN "Name is required"
    ELSE IF ~NonBlank(fields.email) THEN "Email is required"
    ELSE IF ~isValidEmail(fields.email) THEN "Please enter a valid email address"
    ELSE IF ~NonBlank(fields.message) THEN "Message is required"
    ELSE "Message must be at least 10 characters long"

\* the notification system has shown one more notification, with this
\* message and type, and has attached it to the document
ShownOneMore(message, type) ==
    LET n == Len(notes.elements) + 1
    IN  /\ Len(notes'.elements) = n
        /\ notes'.elements[n].message = message
        /\ notes'.elements[n].type = type
        /\ n \in notes'.body
        /\ n \in notes'.activeNotifications

\* C13: a submit hands the data on only if it passes validation; when it
\* fails exactly one error notification, for the first failing field, is
\* shown by the notification system, nothing is submitted and the fields
\* stay as they are; the form is reset only when a submission has succeeded.
C13_ContactFormValidation ==
    [][ /\ form'.submits # form.submits =>
              IF FormValid(form.fields)
              THEN /\ form'.submitted = Append(form.submitted, form.fields)
                   /\ form'.notifications = form.notifications
                   /\ notes' = notes
                   /\ form'.fields = form.fields
                   /\ form'.resets = form.resets
              ELSE /\ form'.submitted = form.submitted
                   /\ form'.pending = form.pending
                   /\ form'.notifications =
                         Append(form.notifications,
                                [message |-> FirstFailure(form.fields),
                                 type |-> "error"])
                   /\ ShownOneMore(FirstFailure(form.fields), "error")
                   /\ form'.fields = form.fields
                   /\ form'.resets = form.resets
        /\ form'.resets # form.resets =>
              /\ form.pending # <<>>
              /\ form'.pending = Tail(form.pending)
              /\ FormValid(Head(form.pending))
              /\ form'.fields = EmptyFields
              /\ form'.notifications[Len(form'.notifications)].type = "success"
      ]_vars

\* C13 witness: a form with a malformed email and a short message was
\* submitted after an earlier submission had succeeded: one error, about the
\* email, nothing new submitted, the fields as typed
C13_Witness ==
    /\ form.pc = "ready"
    /\ form.submits = 2
    /\ form.resets = 1
    /\ Len(form.submitted) = 1
    /\ Len(form.notifications) = 2
    /\ form.notifications[2] =
          [message |-> "Please enter a valid email address", type |-> "error"]
    /\ Len(notes.elements) = 2
    /\ notes.elements[2].message = "Please enter a valid email address"
    /\ 2 \in notes.body
    /\ form.fields.email = <<"a", "@", "a", ".", "1", "1">>
    /\ Len(form.fields.message) = 9

\* C21 (as claimed): an attempt that gets no answer within apiConfig.timeout
\* makes fetchWithErrorHandling reject with an error of type 'timeout', and
\* no retry follows it.
C21_TimeoutRejects ==
    (/\ client.pc # "idle"
     /\ client.api = "fetch"
     /\ client.last.kind = "timeout") =>
        /\ client.pc = "rejected"
        /\ "type" \in DOMAIN client.error
        /\ client.error.type = "timeout"
        /\ Len(client.log) = client.fetches

\* C25: a call of checkLimit changes the list of no other ip, a rejected
\* call leaves the limiter's map as it was, and the call is accepted exactly
\* when fewer than limit accepted requests of its own ip lie within the last
\* windowMs, whatever was rejected meanwhile and whatever other ips sent.
C25_Step ==
    (clock' = clock /\ lastCheck'.kind = "check") =>
        /\ lastCheck'.ok <=> (InWindow(accepted[lastCheck'.ip], clock) < limit)
        /\ ~lastCheck'.ok => requests' = requests
        /\ \A other \in IPs \ {lastCheck'.ip} : requests'[other] = requests[other]
        /\ \A ip \in IPs :
               \A i \in DOMAIN requests'[ip] :
                   \E j \in DOMAIN accepted'[ip] :
                       accepted'[ip][j] = requests'[ip][i]

C25_RejectedNotRecorded == [][C25_Step]_vars

\* C25 witness: an ip is accepted on the call right after one of its calls
\* was rejected, while another ip has its window full
C25_Witness ==
    /\ lastCheck.kind = "check"
    /\ lastCheck.ok
    /\ lastCheck.afterReject
    /\ \E other \in IPs \ {lastCheck.ip} :
           InWindow(accepted[other], clock) = limit

\* C22 (as claimed): never more than maxNotifications notifications are
\* attached to the document, or members of activeNotifications, at once.
C22_AtMostMax ==
    /\ Cardinality(notes.body) <= maxNotifications
    /\ Cardinality(notes.activeNotifications) <= maxNotifications

\* notification n was shown with a duration above 0
ShownToExpire(n) ==
    /\ n <= Len(notes.elements)
    /\ notes.elements[n].duration > 0

\* C23 (as claimed): with timers firing, every notification shown with a
\* duration above 0 eventually leaves the document and activeNotifications,
\* a queued one included; and a notification is in activeNotifications
\* exactly when it is attached to the document.
C23_EventuallyRemoved ==
    /\ \A n \in 1..MaxShown :
           ShownToExpire(n) ~>
               (n \notin notes.body /\ n \notin notes.activeNotifications)
    /\ [](notes.activeNotifications = notes.body)

\* the notification of handleAppLaunch was never taken away by remove() or
\* clearAll()
NotRemovedByPage ==
    notes.elements[handler.notification].removedBy # "remove"

\* C24 (as claimed): once the launch has settled, the notification of
\* handleAppLaunch carries the outcome instead of 'Launching...', and a timer
\* takes it off the document only after it has shown the outcome for a full
\* notificationConfig.duration.
C24_OutcomeDisplayed ==
    (handler.pc = "done" /\ NotRemovedByPage) =>
        /\ notes.elements[handler.notification].type =
               (IF handler.outcome = "resolved" THEN "success" ELSE "error")
        /\ handler.notification \notin notes.body => handler.shown = duration

\* C26 (as claimed): once the timers of a Modal have run, its state is that
\* of the last call: after open() the element is attached with class
\* 'active'; after close() nothing is attached and modal and element are
\* null.
C26_LastCallWins ==
    modal.timers = EmptyBag =>
        /\ modal.lastCall = "open" =>
               /\ modal.modal # 0
               /\ modal.modal \in modal.body
               /\ modal.modal \in modal.active
        /\ modal.lastCall = "close" =>
               /\ modal.modal = 0
               /\ modal.element = 0
               /\ modal.body = {}

\* the feature flag the documentation names for a project
FlagOfProject(project) ==
    CASE project = caesarCipher -> "caesarCipher"
      [] project = ecosystem -> "ecosystemSimulation"
      [] project = codeProcessor -> "codeProcessor"
      [] OTHER -> ""

\* the card has a Launch Demo button or a Try Demo link
HasDemoOrLaunch ==
    \E i \in DOMAIN card.links : card.links[i].text \in {"Launch Demo", "Try Demo"}

\* C27 (as claimed): a rendered card has a Launch Demo button or Try Demo
\* link only if the project's feature flag is not false.
C27_FlagGatesCard ==
    (/\ card.kind = "card"
     /\ FlagOfProject(card.project) # ""
     /\ flags[FlagOfProject(card.project)] = JsValue("boolean", "false")) =>
        ~HasDemoOrLaunch

=============================================================================
